---- MODULE Spec2Model ----
(***************************************************************************)
(* A model of the Shorten (SHN) decoder: the MSB-first bit reader          *)
(* (bitstream.rs), the header parser (header.rs), the per-channel buffers  *)
(* (buffer.rs), the command state machine (decode.rs) and the sample       *)
(* iterator (lib.rs).                                                      *)
(*                                                                         *)
(* Every fallible operation returns a record                              *)
(*   [t |-> "Ok",    r |-> state after, v |-> value]                       *)
(*   [t |-> "Err",   r |-> state after, e |-> error]                       *)
(*   [t |-> "Panic", r |-> state after, why |-> text]                      *)
(* where the state after is the state the mutations made so far leave      *)
(* behind (Rust's `?` returns early but does not undo them).               *)
(***************************************************************************)
EXTENDS Integers, Sequences, FiniteSets, TLC

VARIABLES
    build,      \* "debug" (overflow checks and debug_assert on) or "release"
    input,      \* the bytes handed to ShnReader::new
    pc,         \* "start", "open" (a ShnReader exists), "failed", "panicked"
    decoder,    \* the Decoder's fields, the BitReader included
    info,       \* ShnInfo
    last,       \* what the last call returned
    calls,      \* history: number of next() calls made
    delivered,  \* history: the samples next() has yielded, in order
    hist,       \* history: facts about earlier calls (see HistInit)
    unit        \* a BitReader, MeanAccumulator or ChannelBuffer driven on its
                \* own (UnitSpec); NoUnit while a ShnReader is driven (Spec)

vars == <<build, input, pc, decoder, info, last, calls, delivered, hist, unit>>

----------------------------------------------------------------------------
(* Results *)

Ok(r, v) == [t |-> "Ok", r |-> r, v |-> v]
Err(r, e) == [t |-> "Err", r |-> r, e |-> e]
Panic(r, why) == [t |-> "Panic", r |-> r, why |-> why]

ShnError(kind, arg) == [kind |-> kind, arg |-> arg]
IoError == ShnError("Io", 0)

----------------------------------------------------------------------------
(* 32-bit words, most significant bit at index 1 *)

I32Max == 2147483647
I32Min == -I32Max - 1

ZeroWord == [i \in 1..32 |-> 0]

\* u32 << n and u32 >> n for 0 <= n < 32: bits shifted out are lost
ShlWord(w, n) == [i \in 1..32 |-> IF i + n <= 32 THEN w[i + n] ELSE 0]
ShrWord(w, n) == [i \in 1..32 |-> IF i - n >= 1 THEN w[i - n] ELSE 0]
OrWord(a, b) == [i \in 1..32 |-> IF a[i] = 1 \/ b[i] = 1 THEN 1 ELSE 0]

\* the word of a value below 2^31
NatWord(v) == [i \in 1..32 |-> IF i = 1 THEN 0 ELSE (v \div 2^(32 - i)) % 2]

\* the value of a word (the model's integers end at 2^31 - 1)
WordVal(w) ==
    LET F[i \in 0..32] == IF i = 0 THEN 0 ELSE 2 * F[i - 1] + w[i]
    IN F[32]

----------------------------------------------------------------------------
(* BitReader (bitstream.rs) *)

BitReader_new(bytes) == [reader |-> bytes, buf |-> ZeroWord, bits_left |-> 0]

read_byte_direct(rd) ==
    IF rd.reader = << >> THEN Err(rd, IoError)
    ELSE Ok([rd EXCEPT !.reader = Tail(@)], Head(rd.reader))

RECURSIVE fill(_, _)

\* a refill that takes a byte of ones when the source has ended
fill_padded(rd, n) ==
    IF rd.bits_left >= n THEN Ok(rd, 0)
    ELSE LET b == IF rd.reader = << >> THEN 255 ELSE Head(rd.reader)
             rd1 == IF rd.reader = << >> THEN rd ELSE [rd EXCEPT !.reader = Tail(@)]
         IN fill([rd1 EXCEPT
                     !.buf = OrWord(@, ShlWord(NatWord(b), (24 - rd.bits_left) % 32)),
                     !.bits_left = @ + 8], n)

fill(rd, n) ==
    IF rd.bits_left >= n THEN Ok(rd, 0)
    ELSE IF rd.reader = << >> THEN Err(rd, IoError)
    ELSE LET b == Head(rd.reader)
             rd1 == [rd EXCEPT !.reader = Tail(@)]
         IN IF rd.bits_left > 24 /\ build = "debug"
            THEN Panic(rd1, "attempt to subtract with overflow")
            ELSE fill([rd1 EXCEPT
                          !.buf = OrWord(@, ShlWord(NatWord(b), (24 - rd.bits_left) % 32)),
                          !.bits_left = @ + 8], n)

\* a read that leaves the bits it returned in the accumulator
read_bits_peek(f, n) ==
    IF f.t # "Ok" THEN f
    ELSE Ok([f.r EXCEPT !.bits_left = @ - n],
            WordVal(ShrWord(f.r.buf, (32 - n) % 32)))

\* read_bits once fill(n) has run: f is its result
read_bits_take(f, n) ==
    IF f.t # "Ok" THEN f
    ELSE Ok([f.r EXCEPT !.buf = ShlWord(@, n % 32), !.bits_left = @ - n],
            WordVal(ShrWord(f.r.buf, (32 - n) % 32)))

read_bits(rd, n) ==
    IF n > 25 /\ build = "debug"
    THEN Panic(rd, "read_bits limited to 25 bits per call")
    ELSE IF n = 0 THEN Ok(rd, 0)
    ELSE read_bits_take(fill(rd, n), n)

\* the unary part of read_unsigned_rice: count 0 bits up to the stop bit
RECURSIVE rice_quotient(_, _)

\* one turn of the loop once fill(1) has run: f is its result
rice_bit(f, q) ==
    IF f.t # "Ok" THEN f
    ELSE IF f.r.buf[1] = 0
    THEN rice_quotient([f.r EXCEPT !.buf = ShlWord(@, 1), !.bits_left = @ - 1], q + 1)
    ELSE Ok([f.r EXCEPT !.buf = ShlWord(@, 1), !.bits_left = @ - 1], q)

rice_quotient(rd, q) == rice_bit(fill(rd, 1), q)

\* a join that adds the quotient where it stands, unshifted
rice_join_unshifted(uq, m, k) ==
    IF m.t # "Ok" THEN m ELSE Ok(m.r, uq.v + m.v)

\* (q << k) | r, from the results uq of the unary part and m of the mantissa
rice_join(uq, m, k) ==
    IF m.t # "Ok" THEN m
    ELSE IF k >= 32 /\ build = "debug"
    THEN Panic(m.r, "attempt to shift left with overflow")
    ELSE Ok(m.r, WordVal(OrWord(ShlWord(NatWord(uq.v), k % 32), NatWord(m.v))))

\* the k mantissa bits, read behind the unary part
rice_mantissa(uq, k) ==
    IF uq.t # "Ok" THEN uq
    ELSE rice_join(uq, IF k > 0 THEN read_bits(uq.r, k) ELSE Ok(uq.r, 0), k)

read_unsigned_rice(rd, k) == rice_mantissa(rice_quotient(rd, 0), k)

\* an unfolding that sends odd u to -(u / 2)
rice_unfold_short(u) ==
    IF u.t # "Ok" THEN u
    ELSE Ok(u.r, IF u.v % 2 = 0 THEN u.v \div 2 ELSE -(u.v \div 2))

\* the sign unfolded: even u is u / 2, odd u is -(u / 2) - 1
rice_unfold(u) ==
    IF u.t # "Ok" THEN u
    ELSE Ok(u.r, IF u.v % 2 = 0 THEN u.v \div 2 ELSE -(u.v \div 2) - 1)

read_signed_rice(rd, k) == rice_unfold(read_unsigned_rice(rd, k + 1))

\* the value, Rice-coded with the nbits read before it
read_ulong_value(nbits) ==
    IF nbits.t # "Ok" THEN nbits ELSE read_unsigned_rice(nbits.r, nbits.v)

\* a ulong read as a single Rice code of two mantissa bits
read_ulong_fixed_width(rd) == read_unsigned_rice(rd, 2)

read_ulong(rd) == read_ulong_value(read_unsigned_rice(rd, 2))

----------------------------------------------------------------------------
(* Signed arithmetic.  An i64 quantity is kept as [h, l] with value          *)
(* h * 65536 + l and 0 <= l < 65536, so that sums and products of i32        *)
(* values stay inside the integers of the model.                            *)

WOfInt(v) == [h |-> v \div 65536, l |-> v % 65536]
WAdd(a, b) == [h |-> a.h + b.h + (a.l + b.l) \div 65536, l |-> (a.l + b.l) % 65536]
\* a * c for a small factor c (|c| <= 32768)
WMul(a, c) == [h |-> a.h * c + (a.l * c) \div 65536, l |-> (a.l * c) % 65536]
WNeg(a) == [h |-> -a.h - (IF a.l > 0 THEN 1 ELSE 0), l |-> (65536 - a.l) % 65536]
WIsNeg(a) == a.h < 0
\* i64 >> n for 0 <= n < 64 (arithmetic: rounds towards minus infinity)
WShr(a, n) ==
    IF n <= 16
    THEN [h |-> a.h \div 2^n, l |-> (a.h % 2^n) * 2^(16 - n) + a.l \div 2^n]
    ELSE IF n - 16 >= 31 THEN WOfInt(IF a.h < 0 THEN -1 ELSE 0)
    ELSE WOfInt(a.h \div 2^(n - 16))
\* i64 / d for 0 < d <= 32768 (Rust's division: rounds towards zero)
WDivNonNeg(a, d) ==
    [h |-> a.h \div d, l |-> ((a.h % d) * 65536 + a.l) \div d]
WDiv(a, d) == IF WIsNeg(a) THEN WNeg(WDivNonNeg(WNeg(a), d)) ELSE WDivNonNeg(a, d)
\* whether the value fits an i32, and `as i32` (keeps the low 32 bits)
WFitsI32(a) == a.h >= -32768 /\ a.h <= 32767
WToI32(a) ==
    LET hh == a.h % 65536
    IN (IF hh >= 32768 THEN hh - 65536 ELSE hh) * 65536 + a.l

\* i32 + i32 and i32 * i32 (c small): overflow panics in a debug build and
\* wraps in a release build
AddI32(a, b) ==
    LET s == WAdd(WOfInt(a), WOfInt(b))
    IN [overflow |-> ~WFitsI32(s), v |-> WToI32(s)]
MulI32(c, a) ==
    LET s == WMul(WOfInt(a), c)
    IN [overflow |-> ~WFitsI32(s), v |-> WToI32(s)]

\* i32 << n for 0 <= n < 32
I32Word(v) ==
    IF v >= 0 THEN NatWord(v) ELSE [NatWord(v - I32Min) EXCEPT ![1] = 1]
WordI32(w) ==
    IF w[1] = 1 THEN WordVal([w EXCEPT ![1] = 0]) + I32Min ELSE WordVal(w)
ShlI32(v, n) == WordI32(ShlWord(I32Word(v), n))

----------------------------------------------------------------------------
(* ChannelBuffer and MeanAccumulator (buffer.rs).  data[k + 1] is the        *)
(* source's data[k].                                                        *)

NWRAP == 3

Zeros(n) == [i \in 1..n |-> 0]

ChannelBuffer_new(blocksize) ==
    [data |-> Zeros(NWRAP + blocksize), blocksize |-> blocksize]

\* Vec::resize(n, 0): truncate, or extend with zeros
VecResize(v, n) == [i \in 1..n |-> IF i <= Len(v) THEN v[i] ELSE 0]

\* a resize that clears the block and keeps the history only
resize_cleared(buf, new_blocksize) ==
    [data |-> [i \in 1..(NWRAP + new_blocksize) |-> IF i <= NWRAP THEN buf.data[i] ELSE 0],
     blocksize |-> new_blocksize]

resize(buf, new_blocksize) ==
    IF new_blocksize # buf.blocksize
    THEN [data |-> VecResize(buf.data, NWRAP + new_blocksize),
          blocksize |-> new_blocksize]
    ELSE buf

\* whether get(i) / set(i, _) index inside the storage (else they panic)
InBounds(buf, i) == NWRAP + i >= 0 /\ NWRAP + i < Len(buf.data)
get(buf, i) == buf.data[NWRAP + i + 1]
set(buf, i, val) == [buf EXCEPT !.data[NWRAP + i + 1] = val]

RECURSIVE wrap_from(_, _)
wrap_from(buf, i) ==
    IF i >= NWRAP THEN buf
    ELSE wrap_from([buf EXCEPT !.data[i + 1] = buf.data[buf.blocksize + i + 1]], i + 1)
\* the three copies made from the last slot down to the first
wrap_around_descending(buf) ==
    LET b2 == [buf EXCEPT !.data[3] = buf.data[buf.blocksize + 3]]
        b1 == [b2 EXCEPT !.data[2] = b2.data[b2.blocksize + 2]]
    IN [b1 EXCEPT !.data[1] = b1.data[b1.blocksize + 1]]

wrap_around(buf) == wrap_from(buf, 0)

\* the whole storage, history included
block_samples_with_history(buf) == buf.data

block_samples(buf) == SubSeq(buf.data, NWRAP + 1, NWRAP + buf.blocksize)

MeanAccumulator_new(nmean) == [values |-> Zeros(nmean), index |-> 0]

RECURSIVE WSum(_, _)
WSum(s, n) == IF n = 0 THEN WOfInt(0) ELSE WAdd(WSum(s, n - 1), WOfInt(s[n]))

\* a coffset that rounds toward minus infinity
coffset_floored(acc) ==
    LET nmean == Len(acc.values)
        sum == WAdd(WSum(acc.values, nmean), WOfInt(nmean \div 2))
    IN IF nmean = 0 THEN 0
       ELSE IF WIsNeg(sum)
       THEN WToI32(WNeg(WDivNonNeg(WAdd(WNeg(sum), WOfInt(nmean - 1)), nmean)))
       ELSE WToI32(WDivNonNeg(sum, nmean))

coffset(acc) ==
    LET nmean == Len(acc.values)
    IN IF nmean = 0 THEN 0
       ELSE WToI32(WDiv(WAdd(WSum(acc.values, nmean), WOfInt(nmean \div 2)), nmean))

\* a push that starts at the second slot
push_from_second(acc, block_sum) ==
    LET cap == Len(acc.values)
    IN IF cap = 0 THEN acc
       ELSE [values |-> [acc.values EXCEPT ![((acc.index + 1) % cap) + 1] = block_sum],
             index |-> acc.index + 1]

push(acc, block_sum) ==
    LET cap == Len(acc.values)
    IN IF cap = 0 THEN acc
       ELSE [values |-> [acc.values EXCEPT ![(acc.index % cap) + 1] = block_sum],
             index |-> acc.index + 1]

----------------------------------------------------------------------------
(* Header parsing (header.rs).  An Option is a sequence of length 0 or 1.   *)

None == << >>
Some(x) == <<x>>

MAGIC == <<97, 106, 107, 103>>          \* b"ajkg"
TYPE_S8 == 1
TYPE_U8 == 2
TYPE_U16LH == 6
DEFAULT_V0_NMEAN == 0
DEFAULT_V2_NMEAN == 4
DEFAULT_BLOCK_SIZE == 256
DEFAULT_MAXNLPC == 0
DEFAULT_NSKIP == 0
FN_VERBATIM == 9
FNSIZE == 2
VERBATIM_CKSIZE_SIZE == 5
VERBATIM_BYTE_SIZE == 8

\* data[a..b] of the source (0-based, b exclusive)
Slice(data, a, b) == SubSeq(data, a + 1, b)
LE16(data, at) == data[at + 1] + 256 * data[at + 2]
LE32(data, at) ==
    data[at + 1] + 256 * data[at + 2] + 65536 * data[at + 3] + 16777216 * data[at + 4]

MissingWaveHeader == ShnError("MissingWaveHeader", 0)

\* the chunk loop of parse_wave_header; st holds fmt_found and the fmt fields
RECURSIVE wave_chunks(_, _, _)
wave_chunks(data, pos, st) ==
    IF pos + 8 > Len(data)
    THEN IF st.fmt_found
         THEN Ok(0, [sample_rate |-> st.sample_rate, bits_per_sample |-> st.bits_per_sample,
                     channels |-> st.channels, data_bytes |-> 0])
         ELSE Err(0, MissingWaveHeader)
    ELSE LET chunk_id == Slice(data, pos, pos + 4)
             chunk_size == LE32(data, pos + 4)
             is_fmt == chunk_id = <<102, 109, 116, 32>>      \* b"fmt "
             is_data == chunk_id = <<100, 97, 116, 97>>      \* b"data"
             fmt_bad == pos + 8 + chunk_size > Len(data) \/ chunk_size < 16
             st1 == IF is_fmt
                    THEN [fmt_found |-> TRUE,
                          channels |-> LE16(data, pos + 8 + 2),
                          sample_rate |-> LE32(data, pos + 8 + 4),
                          bits_per_sample |-> LE16(data, pos + 8 + 14)]
                    ELSE st
         IN IF is_fmt /\ fmt_bad THEN Err(0, MissingWaveHeader)
            ELSE IF is_data
            THEN IF ~st1.fmt_found THEN Err(0, MissingWaveHeader)
                 ELSE Ok(0, [sample_rate |-> st1.sample_rate,
                             bits_per_sample |-> st1.bits_per_sample,
                             channels |-> st1.channels, data_bytes |-> chunk_size])
            ELSE wave_chunks(data, pos + 8 + chunk_size + (chunk_size % 2), st1)

parse_wave_header(data) ==
    IF Len(data) < 44 THEN Err(0, MissingWaveHeader)
    ELSE IF Slice(data, 0, 4) # <<82, 73, 70, 70>> THEN Err(0, MissingWaveHeader)  \* b"RIFF"
    ELSE IF Slice(data, 8, 12) # <<87, 65, 86, 69>> THEN Err(0, MissingWaveHeader) \* b"WAVE"
    ELSE wave_chunks(data, 12, [fmt_found |-> FALSE, sample_rate |-> 0,
                                bits_per_sample |-> 0, channels |-> 0])

\* n bytes, each Rice-coded with k = VERBATIM_BYTE_SIZE and narrowed to u8
RECURSIVE read_verbatim_bytes(_, _, _)
read_verbatim_bytes(rd, n, acc) ==
    IF n = 0 THEN Ok(rd, acc)
    ELSE LET b == read_unsigned_rice(rd, VERBATIM_BYTE_SIZE)
         IN IF b.t # "Ok" THEN b
            ELSE read_verbatim_bytes(b.r, n - 1, Append(acc, b.v % 256))

\* n bytes read with read_byte_direct
RECURSIVE read_bytes_direct(_, _, _)
read_bytes_direct(rd, n, acc) ==
    IF n = 0 THEN Ok(rd, acc)
    ELSE LET b == read_byte_direct(rd)
         IN IF b.t # "Ok" THEN b ELSE read_bytes_direct(b.r, n - 1, Append(acc, b.v))

\* n ulongs in a row
RECURSIVE read_ulongs(_, _, _)
read_ulongs(rd, n, acc) ==
    IF n = 0 THEN Ok(rd, acc)
    ELSE LET u == read_ulong(rd)
         IN IF u.t # "Ok" THEN u ELSE read_ulongs(u.r, n - 1, Append(acc, u.v))

\* the command loop of parse_header: consume VERBATIM commands, keep the
\* first WAVE header found, stop at the first other command id
RECURSIVE verbatim_drain(_, _)

\* wave_info after a VERBATIM block: wi is the result of parse_wave_header
keep_first(wave_info, wi) ==
    IF wave_info = None /\ wi.t = "Ok" THEN Some(wi.v) ELSE wave_info

\* the block's bytes have been read (vb): try them as a WAVE header, go on
drain_bytes(vb, wave_info) ==
    IF vb.t # "Ok" THEN vb
    ELSE verbatim_drain(vb.r, keep_first(wave_info, parse_wave_header(vb.v)))

\* the block's size has been read (nbytes): read its bytes
drain_size(nbytes, wave_info) ==
    IF nbytes.t # "Ok" THEN nbytes
    ELSE drain_bytes(read_verbatim_bytes(nbytes.r, nbytes.v, << >>), wave_info)

\* a command id has been read (cmd)
drain_command(cmd, wave_info) ==
    IF cmd.t # "Ok" THEN cmd
    ELSE IF cmd.v = FN_VERBATIM
    THEN drain_size(read_unsigned_rice(cmd.r, VERBATIM_CKSIZE_SIZE), wave_info)
    ELSE Ok(cmd.r, [first_audio_cmd |-> Some(cmd.v), wave_info |-> wave_info])

verbatim_drain(rd, wave_info) == drain_command(read_unsigned_rice(rd, FNSIZE), wave_info)

\* the end of parse_header: c is the result of the command loop, f holds
\* blocksize, maxnlpc, nmean, nskip
header_built(version, file_type, channels, f, c) ==
    IF c.t # "Ok" THEN c
    ELSE Ok(c.r,
            [header |->
                [version |-> version, file_type |-> file_type,
                 channels |-> channels, blocksize |-> f[1],
                 maxnlpc |-> f[2], nmean |-> f[3], nskip |-> f[4],
                 first_audio_cmd |-> c.v.first_audio_cmd],
             wave_info |->
                IF c.v.wave_info # None THEN c.v.wave_info[1]
                ELSE [sample_rate |-> 44100,
                      bits_per_sample |-> IF file_type \in {TYPE_S8, TYPE_U8}
                                          THEN 8 ELSE 16,
                      channels |-> channels,
                      data_bytes |-> 0]])

\* the nskip words have been skipped (skip): read the commands
header_skipped(version, file_type, channels, f, skip) ==
    IF skip.t # "Ok" THEN skip
    ELSE header_built(version, file_type, channels, f, verbatim_drain(skip.r, None))

\* the fields without the skip loop behind them
header_sized_unskipped(version, file_type, channels, f) ==
    IF f.t # "Ok" THEN f
    ELSE header_skipped(version, file_type, channels, f.v, Ok(f.r, << >>))

\* blocksize, maxnlpc, nmean, nskip have been read or defaulted (f)
header_sized(version, file_type, channels, f) ==
    IF f.t # "Ok" THEN f
    ELSE header_skipped(version, file_type, channels, f.v,
                        read_ulongs(f.r, f.v[4], << >>))

\* channels has been read: for version >= 2 read four more fields
header_channels(version, file_type, channels) ==
    IF channels.t # "Ok" THEN channels
    ELSE header_sized(version, file_type, channels.v,
            IF version >= 2 THEN read_ulongs(channels.r, 4, << >>)
            ELSE Ok(channels.r,
                    <<DEFAULT_BLOCK_SIZE, DEFAULT_MAXNLPC,
                      IF version >= 1 THEN DEFAULT_V2_NMEAN ELSE DEFAULT_V0_NMEAN,
                      DEFAULT_NSKIP>>))

\* a version test that lets version 0 through
unsupported_version_above(version) == version > 3

unsupported_version(version) == version = 0 \/ version > 3

\* file_type has been read
header_file_type(version, file_type) ==
    IF file_type.t # "Ok" THEN file_type
    ELSE IF ~(file_type.v \in TYPE_S8..TYPE_U16LH)
    THEN Err(file_type.r, ShnError("UnsupportedFileType", file_type.v))
    ELSE header_channels(version, file_type.v, read_ulong(file_type.r))

\* the version byte has been read
header_version(version) ==
    IF version.t # "Ok" THEN version
    ELSE IF unsupported_version(version.v)
    THEN Err(version.r, ShnError("UnsupportedVersion", version.v))
    ELSE header_file_type(version.v, read_ulong(version.r))

\* the four magic bytes have been read
header_magic(magic) ==
    IF magic.t # "Ok" THEN magic
    ELSE IF magic.v # MAGIC THEN Err(magic.r, ShnError("InvalidMagic", 0))
    ELSE header_version(read_byte_direct(magic.r))

parse_header(rd) == header_magic(read_bytes_direct(rd, 4, << >>))

----------------------------------------------------------------------------
(* The decoder (decode.rs).  buffers[ch + 1] is the source's buffers[ch].   *)

FN_DIFF0 == 0
FN_DIFF1 == 1
FN_DIFF2 == 2
FN_DIFF3 == 3
FN_QUIT == 4
FN_BLOCKSIZE == 5
FN_BITSHIFT == 6
FN_QLPC == 7
FN_ZERO == 8
ENERGYSIZE == 3
BITSHIFTSIZE == 2
LPCQSIZE == 2
LPCQUANT == 5
MaxBlockSize == 65536
MaxLpcOrder == 128

\* the table with the signs of the second differences lost
FIXED_COEFFS_unsigned == << <<0, 0, 0>>, <<1, 0, 0>>, <<2, 1, 0>>, <<3, 3, 1>> >>

FIXED_COEFFS == << <<0, 0, 0>>, <<1, 0, 0>>, <<2, -1, 0>>, <<3, -3, 1>> >>

Decoder_new(rd, header) ==
    [reader |-> rd,
     channels |-> header.channels,
     blocksize |-> header.blocksize,
     maxnlpc |-> header.maxnlpc,
     nmean |-> header.nmean,
     version |-> header.version,
     bitshift |-> 0,
     buffers |-> [c \in 1..header.channels |-> ChannelBuffer_new(header.blocksize)],
     means |-> [c \in 1..header.channels |-> MeanAccumulator_new(header.nmean)],
     current_channel |-> 0,
     finished |-> FALSE,
     output_buf |-> << >>,
     output_pos |-> 0,
     pending_cmd |-> header.first_audio_cmd]

\* a reader result as a decoder result: the decoder holds the reader
Lift(res, d) == [res EXCEPT !.r = [d EXCEPT !.reader = res.r]]

\* a sum that starts one sample early, in the history
RECURSIVE block_sum_early(_, _)
block_sum_early(buf, n) ==
    IF n = 0 THEN WOfInt(0)
    ELSE WAdd(block_sum_early(buf, n - 1), WOfInt(get(buf, n - 2)))

\* the sum of the block samples get(0) .. get(bs - 1) as an i64
RECURSIVE block_sum(_, _)
block_sum(buf, n) ==
    IF n = 0 THEN WOfInt(0) ELSE WAdd(block_sum(buf, n - 1), WOfInt(get(buf, n - 1)))

\* the `self.current_channel = (self.current_channel + 1) % self.channels` step
advance_channel(d) == [d EXCEPT !.current_channel = (@ + 1) % d.channels]

finish_channel_block(d, ch) ==
    LET bs == d.blocksize
        buf0 == d.buffers[ch + 1]
        \* for i in 0..bs: set(i, get(i) << bitshift)
        buf1 == IF d.bitshift > 0
                THEN [buf0 EXCEPT !.data =
                        [k \in 1..Len(buf0.data) |->
                            IF k > NWRAP /\ k <= NWRAP + bs
                            THEN ShlI32(buf0.data[k], d.bitshift % 32)
                            ELSE buf0.data[k]]]
                ELSE buf0
        sum == block_sum(buf1, bs)
        effective_sum == IF d.bitshift > 0 THEN WShr(sum, d.bitshift % 64) ELSE sum
        block_mean == WToI32(WDiv(WAdd(effective_sum, WOfInt(bs \div 2)), bs))
        means1 == IF d.nmean > 0
                  THEN [d.means EXCEPT ![ch + 1] = push(@, block_mean)]
                  ELSE d.means
    IN IF build = "debug" /\ d.bitshift >= 32 /\ bs > 0
       THEN Panic(d, "attempt to shift left with overflow")
       ELSE IF build = "debug" /\ d.nmean > 0 /\ d.bitshift >= 64
       THEN Panic([d EXCEPT !.buffers[ch + 1] = buf1],
                  "attempt to shift right with overflow")
       ELSE IF d.nmean > 0 /\ bs = 0
       THEN Panic([d EXCEPT !.buffers[ch + 1] = buf1], "attempt to divide by zero")
       ELSE Ok(advance_channel([d EXCEPT !.buffers[ch + 1] = wrap_around(buf1),
                                         !.means = means1]), 0)

\* pred = sum over j in 0..order of coeffs[j] * get(i - j - 1), in i32
RECURSIVE fixed_pred(_, _, _, _)
fixed_pred(buf, coeffs, i, j) ==
    IF j = 0 THEN [overflow |-> FALSE, v |-> 0]
    ELSE LET p == fixed_pred(buf, coeffs, i, j - 1)
             m == MulI32(coeffs[j], get(buf, i - (j - 1) - 1))
             a == AddI32(p.v, m.v)
         IN [overflow |-> p.overflow \/ m.overflow \/ a.overflow, v |-> a.v]

fixed_prediction(buf, order, coff, i) ==
    IF order = 0 THEN [overflow |-> FALSE, v |-> coff]
    ELSE fixed_pred(buf, FIXED_COEFFS[order + 1], i, order)

\* the end of a block decoder: body is the result of the sample loop
finish_block(body, ch) ==
    IF body.t # "Ok" THEN body ELSE finish_channel_block(body.r, ch)

\* the sample loop of decode_fixed_prediction, from sample i on
RECURSIVE fixed_samples(_, _, _, _, _, _)

\* sample i: residual is the result of read_signed_rice
fixed_sample(d, ch, order, energy, coff, i, residual) ==
    IF residual.t # "Ok" THEN Lift(residual, d)
    ELSE LET d1 == [d EXCEPT !.reader = residual.r]
             prediction == fixed_prediction(d.buffers[ch + 1], order, coff, i)
             s == AddI32(residual.v, prediction.v)
         IN IF build = "debug" /\ (prediction.overflow \/ s.overflow)
            THEN Panic(d1, "arithmetic overflow")
            ELSE fixed_samples([d1 EXCEPT !.buffers[ch + 1] = set(@, i, s.v)],
                               ch, order, energy, coff, i + 1)

fixed_samples(d, ch, order, energy, coff, i) ==
    IF i >= d.blocksize THEN Ok(d, 0)
    ELSE fixed_sample(d, ch, order, energy, coff, i, read_signed_rice(d.reader, energy))

\* decode_fixed_prediction once the energy has been read
fixed_block(d, ch, order, energy) ==
    IF energy.t # "Ok" THEN Lift(energy, d)
    ELSE finish_block(
            fixed_samples([d EXCEPT !.reader = energy.r,
                                    !.buffers[ch + 1] = resize(@, d.blocksize)],
                          ch, order, energy.v, coffset(d.means[ch + 1]), 0),
            ch)

decode_fixed_prediction(d, order) ==
    fixed_block(d, d.current_channel, order, read_unsigned_rice(d.reader, ENERGYSIZE))

\* n LPC coefficients, each read_signed_rice(LPCQSIZE)
RECURSIVE read_coeffs(_, _, _)
read_coeffs(rd, n, acc) ==
    IF n = 0 THEN Ok(rd, acc)
    ELSE LET c == read_signed_rice(rd, LPCQSIZE)
         IN IF c.t # "Ok" THEN c ELSE read_coeffs(c.r, n - 1, Append(acc, c.v))

\* prediction = sum over j of coeff[j] * get(i - j - 1), in i64
RECURSIVE qlpc_sum(_, _, _, _)
qlpc_sum(buf, lpc_coeffs, i, j) ==
    IF j = 0 THEN WOfInt(0)
    ELSE WAdd(qlpc_sum(buf, lpc_coeffs, i, j - 1),
              WMul(WOfInt(get(buf, i - (j - 1) - 1)), lpc_coeffs[j]))

\* the sample loop of decode_qlpc, from sample i on
RECURSIVE qlpc_samples(_, _, _, _, _)

\* sample i: residual is the result of read_signed_rice
qlpc_sample(d, ch, lpc_coeffs, energy, i, residual) ==
    IF residual.t # "Ok" THEN Lift(residual, d)
    ELSE IF \E j \in 1..Len(lpc_coeffs) : ~InBounds(d.buffers[ch + 1], i - (j - 1) - 1)
    THEN Panic([d EXCEPT !.reader = residual.r], "index out of bounds")
    ELSE LET d1 == [d EXCEPT !.reader = residual.r]
             predicted ==
                 WToI32(WShr(qlpc_sum(d.buffers[ch + 1], lpc_coeffs, i, Len(lpc_coeffs)),
                             LPCQUANT))
             s == AddI32(residual.v, predicted)
         IN IF build = "debug" /\ s.overflow
            THEN Panic(d1, "arithmetic overflow")
            ELSE qlpc_samples([d1 EXCEPT !.buffers[ch + 1] = set(@, i, s.v)],
                              ch, lpc_coeffs, energy, i + 1)

qlpc_samples(d, ch, lpc_coeffs, energy, i) ==
    IF i >= d.blocksize THEN Ok(d, 0)
    ELSE qlpc_sample(d, ch, lpc_coeffs, energy, i, read_signed_rice(d.reader, energy))

\* decode_qlpc once the coefficients have been read (cs)
qlpc_block(d, ch, energy, cs) ==
    IF cs.t # "Ok" THEN Lift(cs, d)
    ELSE finish_block(
            qlpc_samples([d EXCEPT !.reader = cs.r,
                                   !.buffers[ch + 1] = resize(@, d.blocksize)],
                         ch, cs.v, energy, 0),
            ch)

\* the order taken as it comes, without a test against maxnlpc
qlpc_order_unchecked(d, ch, energy, lpc_order) ==
    IF lpc_order.t # "Ok" THEN Lift(lpc_order, d)
    ELSE qlpc_block(d, ch, energy, read_coeffs(lpc_order.r, lpc_order.v, << >>))

\* decode_qlpc once the order has been read (lpc_order)
qlpc_order(d, ch, energy, lpc_order) ==
    IF lpc_order.t # "Ok" THEN Lift(lpc_order, d)
    ELSE IF lpc_order.v > d.maxnlpc \/ lpc_order.v > MaxLpcOrder
    THEN Err([d EXCEPT !.reader = lpc_order.r], ShnError("InvalidLpcOrder", lpc_order.v))
    ELSE qlpc_block(d, ch, energy, read_coeffs(lpc_order.r, lpc_order.v, << >>))

\* decode_qlpc once the energy has been read
qlpc_energy(d, ch, energy) ==
    IF energy.t # "Ok" THEN Lift(energy, d)
    ELSE qlpc_order(d, ch, energy.v, read_unsigned_rice(energy.r, LPCQSIZE))

decode_qlpc(d) ==
    qlpc_energy(d, d.current_channel, read_unsigned_rice(d.reader, ENERGYSIZE))

\* a ZERO that clears the block of every channel
decode_zero_all(d) ==
    finish_channel_block(
        [d EXCEPT !.buffers =
            [c \in 1..Len(@) |->
                [@[c] EXCEPT !.data =
                    [k \in 1..Len(@) |->
                        IF k > NWRAP /\ k <= NWRAP + d.blocksize THEN 0 ELSE @[k]]]]],
        d.current_channel)

decode_zero(d) ==
    LET ch == d.current_channel
        buf == resize(d.buffers[ch + 1], d.blocksize)
        zeroed == [buf EXCEPT !.data =
                      [k \in 1..Len(buf.data) |->
                          IF k > NWRAP /\ k <= NWRAP + d.blocksize THEN 0 ELSE buf.data[k]]]
    IN finish_channel_block([d EXCEPT !.buffers[ch + 1] = zeroed], ch)

\* a BLOCKSIZE that resizes the buffer of the current channel only
set_blocksize_current(d, new_bs) ==
    IF new_bs.t # "Ok" THEN Lift(new_bs, d)
    ELSE IF new_bs.v <= 0 \/ new_bs.v > MaxBlockSize
    THEN Err([d EXCEPT !.reader = new_bs.r], ShnError("InvalidBlockSize", new_bs.v))
    ELSE Ok([d EXCEPT !.reader = new_bs.r,
                      !.blocksize = new_bs.v,
                      !.buffers[d.current_channel + 1] = resize(@, new_bs.v)], 0)

\* the FN_BLOCKSIZE arm once the size has been read (new_bs)
set_blocksize(d, new_bs) ==
    IF new_bs.t # "Ok" THEN Lift(new_bs, d)
    ELSE IF new_bs.v <= 0 \/ new_bs.v > MaxBlockSize
    THEN Err([d EXCEPT !.reader = new_bs.r], ShnError("InvalidBlockSize", new_bs.v))
    ELSE Ok([d EXCEPT !.reader = new_bs.r,
                      !.blocksize = new_bs.v,
                      !.buffers = [c \in 1..Len(@) |-> resize(@[c], new_bs.v)]], 0)

decode_blocksize(d) == set_blocksize(d, read_ulong(d.reader))

\* a BITSHIFT that moves on to the next channel
set_bitshift_advancing(d, b) ==
    IF b.t # "Ok" THEN Lift(b, d)
    ELSE Ok(advance_channel([d EXCEPT !.reader = b.r, !.bitshift = b.v]), 0)

\* the FN_BITSHIFT arm once the shift has been read (b)
set_bitshift(d, b) ==
    IF b.t # "Ok" THEN Lift(b, d)
    ELSE Ok([d EXCEPT !.reader = b.r, !.bitshift = b.v], 0)

decode_bitshift(d) == set_bitshift(d, read_unsigned_rice(d.reader, BITSHIFTSIZE))

\* n verbatim bytes read and dropped
RECURSIVE skip_verbatim(_, _)
skip_verbatim(rd, n) ==
    IF n = 0 THEN Ok(rd, 0)
    ELSE LET b == read_unsigned_rice(rd, VERBATIM_BYTE_SIZE)
         IN IF b.t # "Ok" THEN b ELSE skip_verbatim(b.r, n - 1)

\* the FN_VERBATIM arm once the size has been read (nbytes)
drop_verbatim(d, nbytes) ==
    IF nbytes.t # "Ok" THEN Lift(nbytes, d)
    ELSE Lift(skip_verbatim(nbytes.r, nbytes.v), d)

decode_verbatim(d) ==
    drop_verbatim(d, read_unsigned_rice(d.reader, VERBATIM_CKSIZE_SIZE))

\* a QUIT that leaves the decoder as it was
decode_quit_ignored(d) == d

\* the FN_QUIT arm
decode_quit(d) == [d EXCEPT !.finished = TRUE]

\* the blocks one after the other, channel by channel
interleave_planar(buffers, nchan, bs) ==
    [k \in 1..(bs * nchan) |->
        block_samples(buffers[((k - 1) \div bs) + 1])[((k - 1) % bs) + 1]]

\* output_buf for two or more channels: for i in 0..bs, for ch in 0..nchan
interleave(buffers, nchan, bs) ==
    [k \in 1..(bs * nchan) |->
        block_samples(buffers[((k - 1) % nchan) + 1])[((k - 1) \div nchan) + 1]]

interleave_output(d) ==
    [d EXCEPT !.output_pos = 0,
              !.output_buf = IF d.channels = 1 THEN block_samples(d.buffers[1])
                             ELSE interleave(d.buffers, d.channels, d.blocksize)]

\* an unknown command id skipped instead of rejected
invalid_command_skipped(d, cmd) == Ok(d, 0)

\* the `_` arm of the match on the command id
invalid_command(d, cmd) == Err(d, ShnError("InvalidCommand", cmd))

\* blocks_decoded += 1 behind a block decoder that returned Ok
one_block(x) == IF x.t = "Ok" THEN Ok(x.r, 1) ELSE x

\* one command of the `while blocks_decoded < nchan` loop: the result's v is
\* the number of blocks the command decoded (0 or 1), or -1 for QUIT
dispatch(d, cmd) ==
    IF cmd = FN_QUIT THEN Ok(decode_quit(d), -1)
    ELSE IF cmd = FN_BLOCKSIZE THEN decode_blocksize(d)
    ELSE IF cmd = FN_BITSHIFT THEN decode_bitshift(d)
    ELSE IF cmd = FN_VERBATIM THEN decode_verbatim(d)
    ELSE IF cmd = FN_ZERO THEN one_block(decode_zero(d))
    ELSE IF cmd \in {FN_DIFF0, FN_DIFF1, FN_DIFF2, FN_DIFF3}
    THEN one_block(decode_fixed_prediction(d, cmd))
    ELSE IF cmd = FN_QLPC THEN one_block(decode_qlpc(d))
    ELSE invalid_command(d, cmd)

\* the command id read from the stream (c), as the command to dispatch
command_read(d, c) ==
    IF c.t # "Ok" THEN Lift(c, d) ELSE Ok([d EXCEPT !.reader = c.r], c.v)

\* the command to dispatch: the pre-read one, else the next one of the stream
\* a fetch that drops the pending id and reads the stream instead
next_command_reread(d) ==
    command_read([d EXCEPT !.pending_cmd = None], read_unsigned_rice(d.reader, FNSIZE))

next_command(d) ==
    IF d.pending_cmd # None
    THEN Ok([d EXCEPT !.pending_cmd = None], d.pending_cmd[1])
    ELSE command_read(d, read_unsigned_rice(d.reader, FNSIZE))

\* the loop of decode_next_block.  log is history: the ids dispatched, the
\* number of blocks completed in this pass and, per dispatched command, the
\* decoder it was dispatched on (pre) and what the dispatch returned (post);
\* it is returned with the result.
RECURSIVE block_loop(_, _)

\* the log with the command c.v added, dispatched on c.r with result x
logged(log, c, x) ==
    [log EXCEPT !.cmds = Append(@, c.v),
                !.steps = Append(@, [cmd |-> c.v, pre |-> c.r, post |-> x])]

\* the loop behind a dispatched command: x is the result of dispatch
after_dispatch(x, log) ==
    IF x.t # "Ok" THEN x @@ [log |-> log]
    ELSE IF x.v = -1 THEN Ok(x.r, FALSE) @@ [log |-> log]
    ELSE block_loop(x.r, [log EXCEPT !.blocks = @ + x.v])

\* the loop behind next_command: c is its result
\* the match on the command c.v: x is the result of its arm
dispatched(c, x, log) == after_dispatch(x, logged(log, c, x))

after_command(c, log) ==
    IF c.t # "Ok" THEN c @@ [log |-> log]
    ELSE dispatched(c, dispatch(c.r, c.v), log)

block_loop(d, log) ==
    IF log.blocks >= d.channels
    THEN Ok(interleave_output(d), TRUE) @@ [log |-> log]
    ELSE after_command(next_command(d), log)

EmptyLog == [cmds |-> << >>, blocks |-> 0, steps |-> << >>]

decode_next_block(d) ==
    IF d.finished THEN Ok(d, FALSE) @@ [log |-> EmptyLog]
    ELSE block_loop(d, EmptyLog)

next_sample(d) ==
    IF d.output_pos < Len(d.output_buf)
    THEN [d |-> [d EXCEPT !.output_pos = @ + 1], v |-> Some(d.output_buf[d.output_pos + 1])]
    ELSE [d |-> d, v |-> None]

\* ShnSamples::next: the item is None, Some(Ok(sample)) or Some(Err(e));
\* pass tells whether decode_next_block ran and how it ended
ItemNone == [kind |-> "None"]
ItemSample(s) == [kind |-> "Sample", v |-> s]
ItemErr(e) == [kind |-> "Err", e |-> e]

\* `self.decoder.next_sample().map(Ok)` behind a pass that returned Ok(true)
first_sample(s2, log) ==
    [t |-> "Ok", d |-> s2.d,
     item |-> IF s2.v # None THEN ItemSample(s2.v[1]) ELSE ItemNone,
     pass |-> "ok", log |-> log]

\* the match on the result b of decode_next_block
block_decoded(b) ==
    IF b.t = "Panic"
    THEN [t |-> "Panic", d |-> b.r, item |-> ItemNone, pass |-> "panic", log |-> b.log]
    ELSE IF b.t = "Err"
    THEN [t |-> "Ok", d |-> b.r, item |-> ItemErr(b.e), pass |-> "err", log |-> b.log]
    ELSE IF b.v THEN first_sample(next_sample(b.r), b.log)
    ELSE [t |-> "Ok", d |-> b.r, item |-> ItemNone, pass |-> "quit", log |-> b.log]

next(d) ==
    LET s == next_sample(d)
    IN IF s.v # None
       THEN [t |-> "Ok", d |-> s.d, item |-> ItemSample(s.v[1]),
             pass |-> "no", log |-> EmptyLog]
       ELSE IF d.finished
       THEN [t |-> "Ok", d |-> d, item |-> ItemNone, pass |-> "no", log |-> EmptyLog]
       ELSE block_decoded(decode_next_block(d))

----------------------------------------------------------------------------
(* The byte streams the decoder is run on.  A stream is the preamble, then  *)
(* the header fields and a sequence of commands written MSB-first with the  *)
(* Rice codes the reader inverts, zero-padded to a whole byte.              *)

MaxCmds == 2        \* commands per generated stream (before the ending)
MaxCalls == 10      \* next() calls followed per stream

RECURSIVE LowBits(_, _)
LowBits(v, n) == IF n = 0 THEN << >> ELSE Append(LowBits(v \div 2, n - 1), v % 2)
RECURSIVE BitLen(_)
BitLen(v) == IF v = 0 THEN 0 ELSE 1 + BitLen(v \div 2)

EncURice(v, k) == [i \in 1..(v \div 2^k) |-> 0] \o <<1>> \o LowBits(v % 2^k, k)
EncSRice(x, k) == EncURice(IF x >= 0 THEN 2 * x ELSE -2 * x - 1, k + 1)
EncULong(v) == EncURice(BitLen(v), 2) \o EncURice(v, BitLen(v))

\* the codes of xs one after the other (halving keeps the recursion shallow)
RECURSIVE EncEach(_, _, _)
EncEach(xs, k, signed) ==
    IF xs = << >> THEN << >>
    ELSE IF Len(xs) = 1
    THEN (IF signed THEN EncSRice(xs[1], k) ELSE EncURice(xs[1], k))
    ELSE EncEach(SubSeq(xs, 1, Len(xs) \div 2), k, signed)
         \o EncEach(SubSeq(xs, Len(xs) \div 2 + 1, Len(xs)), k, signed)

\* one command, for a block of bs samples
EncCmd(c, bs) ==
    CASE c.op = "DIFF" ->
            EncURice(c.k, 2) \o EncURice(c.e, 3) \o EncEach(SubSeq(c.res, 1, bs), c.e, TRUE)
      [] c.op = "QLPC" ->
            EncURice(7, 2) \o EncURice(c.e, 3) \o EncURice(Len(c.coeffs), 2)
            \o EncEach(c.coeffs, 2, TRUE) \o EncEach(SubSeq(c.res, 1, bs), c.e, TRUE)
      [] c.op = "QLPCHEAD" -> EncURice(7, 2) \o EncURice(c.e, 3) \o EncURice(c.order, 2)
      [] c.op = "ZERO" -> EncURice(8, 2)
      [] c.op = "QUIT" -> EncURice(4, 2)
      [] c.op = "BLOCKSIZE" -> EncURice(5, 2) \o EncULong(c.n)
      [] c.op = "BITSHIFT" -> EncURice(6, 2) \o EncURice(c.b, 2)
      [] c.op = "VERBATIM" ->
            EncURice(9, 2) \o EncURice(Len(c.bytes), 5) \o EncEach(c.bytes, 8, FALSE)
      [] c.op = "ID" -> EncURice(c.id, 2)

RECURSIVE EncProgram(_, _)
EncProgram(prog, bs) ==
    IF prog = << >> THEN << >>
    ELSE LET c == Head(prog)
         IN EncCmd(c, bs)
            \o EncProgram(Tail(prog),
                          IF c.op = "BLOCKSIZE" /\ c.n \in 1..MaxBlockSize THEN c.n ELSE bs)

\* the words xs as ulongs one after the other
RECURSIVE EncULongs(_)
EncULongs(xs) == IF xs = << >> THEN << >> ELSE EncULong(Head(xs)) \o EncULongs(Tail(xs))

EncHeader(h) ==
    EncULong(h.file_type) \o EncULong(h.channels)
    \o (IF h.version >= 2
        THEN EncULong(h.blocksize) \o EncULong(h.maxnlpc) \o EncULong(h.nmean)
             \o EncULong(Len(h.skip)) \o EncULongs(h.skip)
        ELSE << >>)

\* bits to bytes, the last byte padded with zero bits
Pack(bits) ==
    [b \in 1..((Len(bits) + 7) \div 8) |->
        WordVal([i \in 1..32 |->
                    IF i <= 24 \/ 8 * (b - 1) + i - 24 > Len(bits) THEN 0
                    ELSE bits[8 * (b - 1) + i - 24]])]

Stream(h, prog, tail) ==
    MAGIC \o <<h.version>>
    \o Pack(EncHeader(h) \o EncProgram(prog, IF h.version >= 2 THEN h.blocksize
                                            ELSE DEFAULT_BLOCK_SIZE))
    \o tail

Res == <<1, -2, 3, -1>>

Diff(k, e) == [op |-> "DIFF", k |-> k, e |-> e, res |-> Res]
Qlpc(coeffs) == [op |-> "QLPC", e |-> 0, coeffs |-> coeffs, res |-> Res]
\* a QLPC command up to its order field
QlpcOrder(order) == [op |-> "QLPCHEAD", e |-> 0, order |-> order]
Zero == [op |-> "ZERO"]
Quit == [op |-> "QUIT"]
BlockSize(n) == [op |-> "BLOCKSIZE", n |-> n]
BitShift(b) == [op |-> "BITSHIFT", b |-> b]
Verbatim(bytes) == [op |-> "VERBATIM", bytes |-> bytes]
Id(id) == [op |-> "ID", id |-> id]

Hdr(version, channels, blocksize, maxnlpc, nmean) ==
    [version |-> version, file_type |-> 5, channels |-> channels, blocksize |-> blocksize,
     maxnlpc |-> maxnlpc, nmean |-> nmean, skip |-> << >>]

\* a 44-byte RIFF/WAVE header: a 16-byte fmt chunk (PCM, 44100 Hz, 16 bits)
\* declaring the given channel count, and an empty data chunk
WaveHeader(channels) ==
    <<82, 73, 70, 70, 36, 0, 0, 0, 87, 65, 86, 69>>
    \o <<102, 109, 116, 32, 16, 0, 0, 0>>
    \o <<1, 0, channels, 0, 68, 172, 0, 0>>
    \o (IF channels = 1 THEN <<136, 88, 1, 0>> ELSE <<16, 177, 2, 0>>)
    \o <<2 * channels, 0, 16, 0>>
    \o <<100, 97, 116, 97, 0, 0, 0, 0>>

\* the commands the generated streams are made of
Alphabet ==
    {Diff(0, 0), Diff(1, 1), Diff(3, 0), Zero, Quit, BlockSize(1), BitShift(1), Id(10)}

Programs == UNION {[1..n -> Alphabet] : n \in 0..MaxCmds}

Headers == {Hdr(2, 1, 2, 0, 2), Hdr(2, 2, 2, 0, 0), Hdr(2, 2, 1, 2, 4)}

\* streams that end with QUIT and a further byte, and streams that just end
Generated ==
    {Stream(h, p, << >>) : h \in Headers, p \in Programs}
    \cup {Stream(h, p \o <<Quit>>, <<255>>) : h \in Headers, p \in Programs}

\* streams written out case by case: headers and commands outside the
\* generated family
Cases ==
    { \* a header that declares blocksize 0, with and without a mean window
      <<Hdr(2, 1, 0, 0, 4), <<Zero, Quit>>, << >>>>,
      <<Hdr(2, 1, 0, 0, 0), <<Diff(0, 0), Quit>>, << >>>>,
      <<Hdr(2, 2, 0, 0, 0), <<Zero, Zero, Quit>>, << >>>>,
      \* maxnlpc above 128, no channel at all
      <<Hdr(2, 1, 1, 129, 0), <<Quit>>, << >>>>,
      <<Hdr(2, 0, 1, 0, 0), <<Quit>>, << >>>>,
      \* version 1 and 3, skipped header words, leading VERBATIM commands
      <<Hdr(1, 1, 256, 0, 4), <<BlockSize(2), Diff(0, 0), Quit>>, << >>>>,
      <<Hdr(3, 1, 1, 0, 0), <<Diff(1, 0), Quit>>, << >>>>,
      <<[Hdr(2, 1, 1, 0, 0) EXCEPT !.skip = <<0, 1>>], <<Diff(0, 1), Quit>>, << >>>>,
      <<[Hdr(3, 2, 2, 0, 4) EXCEPT !.skip = <<9, 300, 5>>],
        <<Verbatim(<<1>>), Diff(1, 0), Diff(0, 0), Quit>>, << >>>>,
      <<Hdr(2, 1, 1, 0, 0), <<Verbatim(<<82, 73>>), Verbatim(<< >>), Diff(0, 0), Quit>>, << >>>>,
      <<Hdr(2, 1, 1, 0, 0), <<Diff(0, 0), Verbatim(<<7>>), Diff(1, 0), Quit>>, << >>>>,
      \* QLPC: accepted orders, an order above maxnlpc, an order above NWRAP
      <<Hdr(2, 1, 2, 2, 0), <<Qlpc(<<40>>), Qlpc(<<32, -16>>), Quit>>, << >>>>,
      <<Hdr(2, 1, 2, 1, 2), <<Diff(0, 0), Qlpc(<<32, -16>>), Diff(0, 0)>>, << >>>>,
      <<Hdr(2, 1, 1, 4, 0), <<Qlpc(<<1, 1, 1, 1>>), Quit>>, << >>>>,
      \* a Rice parameter above 25, shifts of 31 and 32, samples past 2^31
      <<Hdr(2, 1, 1, 0, 0), <<Diff(0, 25), Quit>>, << >>>>,
      <<Hdr(2, 1, 1, 0, 0), <<BitShift(31), Diff(0, 0), Quit>>, << >>>>,
      <<Hdr(2, 1, 1, 0, 0), <<BitShift(32), Diff(0, 0), Quit>>, << >>>>,
      <<Hdr(2, 1, 2, 0, 0), <<BitShift(30), Diff(3, 0), Quit>>, << >>>>,
      \* an invalid BLOCKSIZE, a BLOCKSIZE between the channels of a pass
      <<Hdr(2, 1, 1, 0, 0), <<BlockSize(0), Diff(0, 0), Quit>>, << >>>>,
      <<Hdr(2, 2, 2, 0, 2), <<Diff(1, 0), BlockSize(1), Diff(1, 0), Quit>>, << >>>>,
      <<Hdr(2, 2, 1, 0, 2), <<Diff(1, 0), BlockSize(3), Diff(1, 0), Quit>>, << >>>>,
      \* two passes of two channels; QUIT or an error between the channels of
      \* a pass
      <<Hdr(2, 2, 2, 0, 2), <<Diff(1, 0), Diff(0, 1), Diff(2, 0), Quit>>, <<7>>>>,
      <<Hdr(2, 2, 2, 0, 2), <<Diff(1, 0), Diff(0, 1), Diff(2, 0), Diff(3, 0), Quit>>, <<1>>>>,
      <<Hdr(2, 2, 1, 0, 0), <<Diff(1, 0), Id(11), Diff(1, 1), Diff(0, 0), Diff(1, 0), Quit>>, << >>>>,
      <<Hdr(2, 2, 1, 0, 0), <<Diff(1, 0), Diff(0, 0), Diff(1, 1), Id(12), Diff(0, 0), Quit>>, << >>>>,
      <<Hdr(2, 3, 1, 0, 0), <<Zero, Diff(0, 0), Diff(1, 0), Diff(0, 0), Quit>>, << >>>>,
      \* a stream that ends after the first block of its second pass
      <<Hdr(2, 2, 1, 0, 0), <<Diff(1, 0), Diff(0, 0), Diff(1, 1)>>, << >>>>,
      \* four samples for one channel, in blocks of two and of one
      <<Hdr(2, 1, 2, 0, 0), <<Diff(1, 0), BlockSize(1), Diff(1, 0), Diff(1, 0), Quit>>, << >>>>,
      \* QLPC under the version 1 defaults; an order above 128 that maxnlpc allows
      <<Hdr(1, 1, 256, 0, 4), <<BlockSize(1), Qlpc(<<40>>), Diff(0, 0), Quit>>, << >>>>,
      <<Hdr(1, 1, 256, 0, 4), <<BlockSize(1), Qlpc(<< >>), Quit>>, << >>>>,
      <<Hdr(2, 1, 1, 200, 0), <<Diff(1, 0), QlpcOrder(129), Quit>>, << >>>>,
      <<Hdr(2, 1, 1, 200, 0), <<QlpcOrder(128)>>, << >>>>,
      \* BLOCKSIZE at and above its upper limit
      <<Hdr(2, 2, 1, 0, 0), <<Diff(1, 0), BlockSize(65537), Diff(1, 0), Quit>>, << >>>>,
      <<Hdr(2, 2, 1, 0, 0), <<Diff(1, 0), BlockSize(65536), Quit>>, << >>>>,
      \* VERBATIM and BITSHIFT between the channels of a pass
      <<Hdr(2, 2, 2, 0, 2), <<Diff(1, 0), Verbatim(<<7, 200>>), BitShift(2), Diff(2, 0),
                             Diff(0, 0), Verbatim(<< >>), Diff(3, 1), Quit>>, << >>>>,
      \* an embedded WAVE header that declares one channel, in a stream of two
      <<Hdr(2, 2, 1, 0, 0), <<Verbatim(WaveHeader(1)), Diff(0, 0), Diff(1, 0), Quit>>, << >>>>,
      <<Hdr(2, 2, 1, 0, 0), <<Verbatim(WaveHeader(2)), Diff(0, 0), Diff(1, 0), Quit>>, << >>>>,
      \* DIFF3 on a history, DIFF0 on a mean window that is not 0
      <<Hdr(2, 2, 3, 0, 1), <<Diff(1, 0), Diff(1, 1), Diff(3, 0), Diff(0, 0), Quit>>, << >>>>,
      \* blocks of three whose samples sum to -2, shifted and not
      <<Hdr(2, 1, 3, 0, 1), <<[Diff(0, 0) EXCEPT !.res = <<-1, -1, 0>>], Diff(0, 0), Quit>>,
        << >>>>,
      <<Hdr(2, 2, 3, 0, 2), <<BitShift(1), Diff(1, 0), [Diff(0, 0) EXCEPT !.res = <<-1, -1, 0>>],
                             Quit>>, << >>>>,
      \* predictions that leave the 32-bit range
      <<Hdr(2, 1, 1, 0, 0), <<BitShift(30), Diff(1, 0), Diff(3, 0), Diff(1, 0), Quit>>, << >>>>,
      <<Hdr(2, 1, 1, 1, 0), <<BitShift(30), Diff(1, 0), Diff(1, 0), Qlpc(<<32>>), Quit>>, << >>>> }

\* byte strings that are no Shorten stream
Malformed ==
    { << >>, <<97, 106>>, <<120, 121>>, <<97, 106, 107, 104, 2, 251>>,
      <<97, 106, 107, 103>>, <<97, 106, 107, 103, 0, 251, 177>>,
      <<97, 106, 107, 103, 4, 251, 177>>, <<65, 74, 75, 71, 0, 144>>,
      MAGIC \o <<2>> \o Pack(EncULong(0) \o EncULong(1)),
      MAGIC \o <<1>> \o Pack(EncULong(7) \o EncULong(1)),
      MAGIC \o <<0>> \o Pack(EncULong(9) \o EncULong(1)),
      MAGIC \o <<2>> \o Pack(EncURice(26, 2) \o EncURice(5, 26)),
      MAGIC \o <<2>> }

\* the header of a real file (type 5, two channels, blocksize 256, maxnlpc
\* 0, nmean 4, nskip 0) padded to a whole byte, and the same header with a
\* DIFF0 command id in the bits of the padding
RealHeader == <<97, 106, 107, 103, 2, 251, 177, 112, 9, 249, 32>>
RealHeaderThenCommand == <<97, 106, 107, 103, 2, 251, 177, 112, 9, 249, 48>>

Inputs ==
    Generated \cup {Stream(c[1], c[2], c[3]) : c \in Cases} \cup Malformed
    \cup {RealHeader, RealHeaderThenCommand}

----------------------------------------------------------------------------
(* The state machine: ShnReader::new, then calls of the iterator's next()   *)

NoDecoder == [exists |-> FALSE]
NoInfo == [exists |-> FALSE]

\* hist: pass and log describe the last next() call (how its
\* decode_next_block ended, "no" when it ran none, and what it dispatched);
\* errAt / quitAt: the number of the first call that yielded an error /
\* that dispatched QUIT (0: none yet), with the reader as that call left it;
\* quitBlocks: the blocks the QUIT pass had decoded; units: the output_buf
\* contents of all successful passes, concatenated; blocks: the
\* block-producing commands completed so far, okBlocks: those of passes that
\* succeeded; due: the sum, over the passes that succeeded, of the block size
\* in force when the pass ended times the blocks of the pass; resized: a
\* BLOCKSIZE command has been dispatched; lost: the blocks completed in
\* passes that ended with an error; tails: per channel, the last three
\* samples the completed block commands produced for it (zeros in front
\* while there are fewer)
NoUnit == [kind |-> "none"]

HistInit ==
    [pass |-> "no", log |-> EmptyLog,
     errAt |-> 0, errReader |-> << >>,
     quitAt |-> 0, quitReader |-> << >>, quitDelivered |-> << >>, quitBlocks |-> 0,
     units |-> << >>, blocks |-> 0, okBlocks |-> 0, due |-> 0, resized |-> FALSE,
     lost |-> 0, tails |-> << >>, start |-> NoDecoder]

Init ==
    /\ build \in {"debug", "release"}
    /\ input \in Inputs
    /\ pc = "start"
    /\ decoder = NoDecoder
    /\ info = NoInfo
    /\ last = [kind |-> "NotCalled"]
    /\ calls = 0
    /\ delivered = << >>
    /\ hist = HistInit
    /\ unit = NoUnit

\* the end of ShnReader::new: h is the result of parse_header
Opened(h) ==
    /\ pc' = CASE h.t = "Ok" -> "open" [] h.t = "Err" -> "failed"
               [] h.t = "Panic" -> "panicked"
    /\ decoder' = IF h.t = "Ok" THEN Decoder_new(h.r, h.v.header) ELSE NoDecoder
    /\ info' = IF h.t = "Ok"
               THEN [channels |-> h.v.wave_info.channels,
                     sample_rate |-> h.v.wave_info.sample_rate,
                     bits_per_sample |-> h.v.wave_info.bits_per_sample]
               ELSE NoInfo
    /\ last' = CASE h.t = "Ok" -> [kind |-> "Reader"]
                 [] h.t = "Err" -> ItemErr(h.e)
                 [] h.t = "Panic" -> [kind |-> "Panic", why |-> h.why]

\* ShnReader::new(input)
New ==
    /\ pc = "start"
    /\ Opened(parse_header(BitReader_new(input)))
    /\ UNCHANGED <<build, input, calls, delivered, hist, unit>>

\* the last three of a sequence of three or more
LastThree(s) == SubSeq(s, Len(s) - 2, Len(s))

\* tails behind the step st
TailsBehind(tails, st) ==
    IF st.post.t = "Ok" /\ st.post.v = 1
    THEN [tails EXCEPT ![st.pre.current_channel + 1] =
            LastThree(@ \o block_samples(st.post.r.buffers[st.pre.current_channel + 1]))]
    ELSE tails

\* tails behind the steps i, i + 1, ... of a pass
RECURSIVE TailsFrom(_, _, _)
TailsFrom(tails, steps, i) ==
    IF i > Len(steps) THEN tails
    ELSE TailsFrom(TailsBehind(tails, steps[i]), steps, i + 1)

\* what a call of next() that returned n adds to the history
Recorded(n) ==
    LET firstErr == hist.errAt = 0 /\ n.t = "Ok" /\ n.item.kind = "Err"
        firstQuit == hist.quitAt = 0 /\ n.pass = "quit"
    IN [pass |-> n.pass, log |-> n.log,
        errAt |-> IF firstErr THEN calls + 1 ELSE hist.errAt,
        errReader |-> IF firstErr THEN n.d.reader ELSE hist.errReader,
        quitAt |-> IF firstQuit THEN calls + 1 ELSE hist.quitAt,
        quitReader |-> IF firstQuit THEN n.d.reader ELSE hist.quitReader,
        quitDelivered |-> IF firstQuit THEN delivered ELSE hist.quitDelivered,
        quitBlocks |-> IF firstQuit THEN n.log.blocks ELSE hist.quitBlocks,
        units |-> IF n.pass = "ok" THEN hist.units \o n.d.output_buf ELSE hist.units,
        blocks |-> hist.blocks + n.log.blocks,
        okBlocks |-> IF n.pass = "ok" THEN hist.okBlocks + n.log.blocks
                     ELSE hist.okBlocks,
        due |-> IF n.pass = "ok" THEN hist.due + n.d.blocksize * n.log.blocks
                ELSE hist.due,
        resized |-> hist.resized
                    \/ \E i \in DOMAIN n.log.cmds : n.log.cmds[i] = FN_BLOCKSIZE,
        lost |-> IF n.pass = "err" THEN hist.lost + n.log.blocks ELSE hist.lost,
        tails |-> TailsFrom(IF calls = 0 THEN [c \in 1..n.d.channels |-> Zeros(NWRAP)]
                            ELSE hist.tails,
                            n.log.steps, 1),
        start |-> decoder]

\* the caller's side of a call of next() that returned n
Returned(n) ==
    /\ decoder' = n.d
    /\ pc' = IF n.t = "Panic" THEN "panicked" ELSE "open"
    /\ last' = IF n.t = "Panic" THEN [kind |-> "Panic"] ELSE n.item
    /\ delivered' = IF n.t = "Ok" /\ n.item.kind = "Sample"
                    THEN Append(delivered, n.item.v) ELSE delivered
    /\ hist' = Recorded(n)

\* one call of ShnSamples::next
CallNext ==
    /\ pc = "open"
    /\ calls < MaxCalls
    /\ Returned(next(decoder))
    /\ calls' = calls + 1
    /\ UNCHANGED <<build, input, info, unit>>

Next == New \/ CallNext

Spec == Init /\ [][Next]_vars

----------------------------------------------------------------------------
(* The parts on their own: a MeanAccumulator that is pushed to, a BitReader *)
(* that is read from, a ChannelBuffer that is filled, wrapped and resized.  *)

MaxPushes == 5      \* pushes followed per mean window
MaxReads == 4       \* read_bits calls followed per reader
MaxOps == 3         \* operations followed per channel buffer

Nmeans == {0, 1, 4}
MeanValues == {-3, -1, 10, I32Max}
MeanUnits ==
    {[kind |-> "mean", acc |-> MeanAccumulator_new(n), pushed |-> << >>,
      coff |-> coffset(MeanAccumulator_new(n))] : n \in Nmeans}

ByteStreams == {<<165, 60>>, <<255, 0, 129, 90>>, <<1, 35, 69, 103, 137>>}
BitWidths == {1, 4, 7, 8, 25}
BitUnits ==
    {[kind |-> "bits", src |-> b, rd |-> BitReader_new(b), reads |-> << >>] :
        b \in ByteStreams}

\* Rice codes packed back to back: unsigned codes read with parameter k, or
\* codes of parameter k + 1 read as signed values with parameter k
SmallCodes == 0..5
WideCodes == {5, 33554431, 33554437}
RiceUnit(k, signed, codes) ==
    [kind |-> "rice", k |-> k, signed |-> signed, codes |-> codes,
     src |-> Pack(EncEach(codes, IF signed THEN k + 1 ELSE k, FALSE)),
     rd |-> BitReader_new(Pack(EncEach(codes, IF signed THEN k + 1 ELSE k, FALSE))),
     got |-> << >>]
RiceUnits ==
    {RiceUnit(k, signed, <<a, b>>) :
        k \in {0, 2}, signed \in BOOLEAN, a \in SmallCodes, b \in SmallCodes}
    \cup {RiceUnit(25, FALSE, <<a, b>>) : a \in WideCodes, b \in WideCodes}
    \cup {RiceUnit(24, TRUE, <<a, b>>) : a \in WideCodes, b \in WideCodes}

BlockSizes == 0..3
FillValues == {5, -9}
BufferUnits ==
    {[kind |-> "buffer", buf |-> ChannelBuffer_new(b), prev |-> ChannelBuffer_new(b),
      op |-> "new", arg |-> b, ops |-> 0] : b \in BlockSizes}

UnitInit ==
    /\ build \in {"debug", "release"}
    /\ input = << >>
    /\ pc = "unit"
    /\ decoder = NoDecoder
    /\ info = NoInfo
    /\ last = [kind |-> "NotCalled"]
    /\ calls = 0
    /\ delivered = << >>
    /\ hist = HistInit
    /\ unit \in MeanUnits \cup BitUnits \cup RiceUnits \cup BufferUnits

Driven(u) ==
    /\ unit' = u
    /\ UNCHANGED <<build, input, pc, decoder, info, last, calls, delivered, hist>>

Pushed(u, m, acc) ==
    [u EXCEPT !.acc = acc, !.pushed = Append(@, m), !.coff = coffset(acc)]

\* acc.push(m), then acc.coffset()
MeanPush ==
    /\ unit.kind = "mean"
    /\ Len(unit.pushed) < MaxPushes
    /\ \E m \in MeanValues : Driven(Pushed(unit, m, push(unit.acc, m)))

\* the reader and the log behind a read of n bits that returned res
BitsTaken(u, n, res) ==
    [u EXCEPT !.rd = res.r,
              !.reads = Append(@, [n |-> n, t |-> res.t,
                                   v |-> IF res.t = "Ok" THEN res.v ELSE 0])]

\* reader.read_bits(n)
BitsRead ==
    /\ unit.kind = "bits"
    /\ Len(unit.reads) < MaxReads
    /\ \E n \in BitWidths : Driven(BitsTaken(unit, n, read_bits(unit.rd, n)))

RiceTaken(u, res) ==
    [u EXCEPT !.rd = res.r,
              !.got = Append(@, [t |-> res.t, v |-> IF res.t = "Ok" THEN res.v ELSE 0])]

\* reader.read_unsigned_rice(k), or reader.read_signed_rice(k)
RiceRead ==
    /\ unit.kind = "rice"
    /\ Len(unit.got) < Len(unit.codes)
    /\ Driven(RiceTaken(unit, IF unit.signed THEN read_signed_rice(unit.rd, unit.k)
                               ELSE read_unsigned_rice(unit.rd, unit.k)))

\* buf.set(i, base + i) for i = from, .., blocksize - 1
RECURSIVE SetFrom(_, _, _)
SetFrom(buf, base, from) ==
    IF from >= buf.blocksize THEN buf
    ELSE SetFrom(set(buf, from, base + from), base, from + 1)

Operated(op, arg, buf) ==
    Driven([unit EXCEPT !.buf = buf, !.prev = unit.buf, !.op = op, !.arg = arg,
                        !.ops = @ + 1])

BufferFill ==
    /\ unit.kind = "buffer"
    /\ unit.ops < MaxOps
    /\ \E base \in FillValues : Operated("fill", base, SetFrom(unit.buf, base, 0))

\* buf.wrap_around()
BufferWrap ==
    /\ unit.kind = "buffer"
    /\ unit.ops < MaxOps
    /\ Operated("wrap", 0, wrap_around(unit.buf))

\* buf.resize(n)
BufferResize ==
    /\ unit.kind = "buffer"
    /\ unit.ops < MaxOps
    /\ \E n \in BlockSizes : Operated("resize", n, resize(unit.buf, n))

UnitNext == MeanPush \/ BitsRead \/ RiceRead \/ BufferFill \/ BufferWrap \/ BufferResize

UnitSpec == UnitInit /\ [][UnitNext]_vars

----------------------------------------------------------------------------
(* Claims *)

(* C1: for every byte stream, ShnReader::new and every call of next() end   *)
(* by returning a value or an error: no reachable step is a panic.  Stated  *)
(* for the release build, where overflow checks and debug assertions are    *)
(* off: a panic found there is a panic of every build.                      *)
C1_NoPanic == build = "release" => pc # "panicked"

(* C2: once the iterator has yielded an error element, every later call of  *)
(* next() returns None, and the decoder reads no further command from the   *)
(* bitstream.                                                               *)
C2_ErrorIsFinal ==
    (hist.errAt > 0 /\ calls > hist.errAt) =>
        (last.kind = "None" /\ decoder.reader = hist.errReader)

(* C3: when a QUIT command is dispatched the decoder becomes terminal:      *)
(* finished is set and stays set, the call that dispatched QUIT and every   *)
(* later call return None, so nothing is emitted any more (in particular    *)
(* not the blocks the unfinished pass had decoded), and no further byte is  *)
(* read from the byte source.                                               *)
C3_QuitIsTerminal ==
    hist.quitAt > 0 =>
        /\ pc = "open"
        /\ decoder.finished
        /\ last.kind = "None"
        /\ delivered = hist.quitDelivered
        /\ decoder.reader = hist.quitReader

\* QUIT came after one block of a two-channel pass, bytes follow it, and two
\* more calls have been made since
C3_Witness ==
    /\ hist.quitAt > 0
    /\ calls >= hist.quitAt + 2
    /\ hist.quitBlocks = 1
    /\ decoder.channels = 2
    /\ decoder.reader.reader # << >>

\* a call of next() that returned n yielded an element and changed nothing
Repeats(n) == n.t = "Ok" /\ n.item.kind # "None" /\ n.d = decoder

(* C4: the sample sequence is finite: calling next() repeatedly eventually  *)
(* returns None.  Hence no reachable state is one in which next() yields    *)
(* an element and leaves the decoder as it was (from such a state every     *)
(* later call yields that element again, and None never comes).             *)
C4_EventuallyNone ==
    pc = "open" => ~Repeats(next(decoder))

\* ids of the commands that produce a block
BlockCommands == {FN_DIFF0, FN_DIFF1, FN_DIFF2, FN_DIFF3, FN_QLPC, FN_ZERO}

\* the samples of output_buf not yet handed out
Pending == Len(decoder.output_buf) - decoder.output_pos

(* C5: a production pass that succeeds has dispatched commands until one    *)
(* block per channel was produced (the last command is the one that         *)
(* produced the last block) and leaves blocksize * channels samples in      *)
(* output_buf, the sample at position i of channel ch's block at index      *)
(* i * channels + ch; the iterator hands the samples of the passes out in   *)
(* that order, each once, and starts a pass only when all are handed out.   *)
C5_PassDeliversInterleaved ==
    pc = "open" =>
        /\ delivered = SubSeq(hist.units, 1, Len(hist.units) - Pending)
        /\ hist.pass = "ok" =>
              /\ hist.log.blocks = decoder.channels
              /\ Cardinality({i \in DOMAIN hist.log.cmds :
                                 hist.log.cmds[i] \in BlockCommands}) = decoder.channels
              /\ decoder.channels > 0 =>
                    hist.log.cmds[Len(hist.log.cmds)] \in BlockCommands
              /\ Len(decoder.output_buf) = decoder.blocksize * decoder.channels
              /\ \A i \in 0..(decoder.blocksize - 1) :
                    \A ch \in 0..(decoder.channels - 1) :
                       decoder.output_buf[i * decoder.channels + ch + 1]
                           = decoder.buffers[ch + 1].data[NWRAP + i + 1]
              /\ Pending = IF Len(decoder.output_buf) > 0
                           THEN Len(decoder.output_buf) - 1 ELSE 0

\* two passes of a two-channel stream with two-sample blocks have been handed
\* out in full, and the two channels' last blocks differ, so the order shows
C5_Witness ==
    /\ pc = "open"
    /\ decoder.channels = 2
    /\ decoder.blocksize = 2
    /\ hist.okBlocks = 4
    /\ Len(delivered) = 8
    /\ Pending = 0
    /\ decoder.output_buf[2] # decoder.output_buf[3]

(* C6, as the specification states it: the number of samples emitted equals *)
(* blocksize * channels times the number of block-producing commands        *)
(* executed before QUIT.  Read here in the plainest case: the stream has    *)
(* reached QUIT on a pass boundary, without any error and without a         *)
(* BLOCKSIZE command.                                                       *)
C6_CountPerCommand ==
    (pc = "open" /\ hist.quitAt > 0 /\ hist.quitBlocks = 0
        /\ hist.errAt = 0 /\ ~hist.resized) =>
        Len(delivered) = decoder.blocksize * decoder.channels * hist.blocks

(* C6, amended: the number of samples emitted equals blocksize times the    *)
(* number of block-producing commands executed in the production passes     *)
(* that completed (channels of them per pass, each pass counted with the    *)
(* block size in force when it completed); the blocks of a pass cut short   *)
(* by QUIT are not emitted.  Emitted means handed out or still waiting in   *)
(* output_buf; at QUIT everything emitted has been handed out.              *)
C6_CountPerPass ==
    pc = "open" =>
        /\ Len(delivered) + Pending = hist.due
        /\ ~hist.resized => hist.due = decoder.blocksize * hist.okBlocks
        /\ hist.quitAt > 0 =>
              /\ Len(delivered) = hist.due
              /\ hist.errAt = 0 => hist.okBlocks = hist.blocks - hist.quitBlocks

\* QUIT came after one block of a pass, behind a completed pass of two or
\* more channels whose samples have been handed out
C6_Witness ==
    /\ pc = "open"
    /\ hist.quitAt > 0
    /\ hist.errAt = 0
    /\ hist.quitBlocks = 1
    /\ decoder.channels >= 2
    /\ hist.okBlocks = decoder.channels
    /\ Len(delivered) = decoder.blocksize * decoder.channels
    /\ Len(delivered) >= 4

\* the preamble of the input, read off the bytes
HasMagic == Len(input) >= 4 /\ SubSeq(input, 1, 4) = <<97, 106, 107, 103>>
HasVersion == HasMagic /\ Len(input) >= 5
FileTypeRead == read_ulong(BitReader_new(SubSeq(input, 6, Len(input))))
HeaderErrors == {"InvalidMagic", "UnsupportedVersion", "UnsupportedFileType"}

(* C8: ShnReader::new checks the header in stream order and yields no       *)
(* reader on failure: InvalidMagic when the first four bytes are not        *)
(* 'ajkg'; otherwise UnsupportedVersion(v) when the version byte v is       *)
(* outside 1..3; otherwise UnsupportedFileType(t) when the file type t      *)
(* read is outside 1..6; with valid magic, version and file type none of    *)
(* these three errors is raised.                                            *)
C8_HeaderChecks ==
    pc # "start" =>
        /\ (Len(input) >= 4 /\ ~HasMagic) =>
              (pc = "failed" /\ last = ItemErr(ShnError("InvalidMagic", 0)))
        /\ (HasVersion /\ input[5] \notin 1..3) =>
              (pc = "failed" /\ last = ItemErr(ShnError("UnsupportedVersion", input[5])))
        /\ (HasVersion /\ input[5] \in 1..3 /\ FileTypeRead.t = "Ok") =>
              IF FileTypeRead.v \in 1..6
              THEN ~(last.kind = "Err" /\ last.e.kind \in HeaderErrors)
              ELSE pc = "failed"
                   /\ last = ItemErr(ShnError("UnsupportedFileType", FileTypeRead.v))
        /\ pc = "failed" => (decoder = NoDecoder /\ info = NoInfo)

\* version byte 0 in front of a file type outside 1..6: the version is
\* reported
C8_Witness ==
    /\ pc = "failed"
    /\ HasVersion
    /\ input[5] = 0
    /\ FileTypeRead.t = "Ok"
    /\ FileTypeRead.v \notin 1..6
    /\ last = ItemErr(ShnError("UnsupportedVersion", 0))

(* C9: in every decoder state reached after a successful open, blocksize    *)
(* is in 1..65536 and maxnlpc is at most 128 (a header declaring other      *)
(* values yields no decoder).                                               *)
C9_ResourceBounds ==
    pc = "open" =>
        /\ decoder.blocksize \in 1..MaxBlockSize
        /\ decoder.maxnlpc <= MaxLpcOrder

\* the id a pass dispatched last, 0 when it dispatched none
LastId(log) == IF log.cmds = << >> THEN 0 ELSE log.cmds[Len(log.cmds)]

(* C10: a call of next() whose pass dispatches a command id outside 0..9,   *)
(* pre-read by the header parser or read from the stream, yields            *)
(* Err(InvalidCommand(id)); the call hands out no sample and leaves         *)
(* output_buf and output_pos as they were, so nothing of that pass is       *)
(* emitted.                                                                 *)
C10_InvalidCommandFatal ==
    [][(pc = "open" /\ calls' = calls + 1 /\ LastId(hist'.log) \notin 0..9) =>
          /\ pc' = "open"
          /\ hist'.pass = "err"
          /\ last' = ItemErr(ShnError("InvalidCommand", LastId(hist'.log)))
          /\ delivered' = delivered
          /\ decoder'.output_buf = decoder.output_buf
          /\ decoder'.output_pos = decoder.output_pos
          /\ ~decoder'.finished]_vars

\* the invalid id came from the stream after a block of the pass had been
\* decoded, behind an earlier pass whose samples were handed out
C10_Witness ==
    /\ pc = "open"
    /\ hist.pass = "err"
    /\ hist.log.blocks >= 1
    /\ LastId(hist.log) \notin 0..9
    /\ last = ItemErr(ShnError("InvalidCommand", LastId(hist.log)))
    /\ delivered # << >>

\* the commands a pass dispatched, with the decoder before and the result
Steps(log) == {log.steps[i] : i \in DOMAIN log.steps}

\* the steps of a pass that completed a block
BlockSteps(log) == {st \in Steps(log) : st.post.t = "Ok" /\ st.post.v = 1}

\* the bits a reader can still deliver
BitsAhead(rd) == rd.bits_left + 8 * Len(rd.reader)

\* widths of fixed-width reads and Rice parameters tried
Widths == {1, 8, 25}
RiceParams == {0, 2, 8}

\* the read that returned x failed with the Io kind at the end of the source
FailedAtEof(x) == x.t = "Err" /\ x.e = IoError /\ x.r.reader = << >>

\* x is the result of a read that needs more bits than are ahead (short) or
\* has them all
FixedRead(x, short) == IF short THEN FailedAtEof(x) ELSE x.t # "Err"

\* x is the result of a variable-length read; nothing is ahead (empty) or
\* something is
CodedRead(x, empty) == IF empty THEN FailedAtEof(x) ELSE (x.t = "Err" => FailedAtEof(x))

\* a read on rd fails exactly when the source ends before its bits are there,
\* and then with the Io kind
EofIsIo(rd) ==
    /\ \A n \in Widths : FixedRead(read_bits(rd, n), BitsAhead(rd) < n)
    /\ FixedRead(read_byte_direct(rd), rd.reader = << >>)
    /\ \A k \in RiceParams :
          /\ CodedRead(read_unsigned_rice(rd, k), BitsAhead(rd) = 0)
          /\ CodedRead(read_signed_rice(rd, k), BitsAhead(rd) = 0)
    /\ CodedRead(read_unsigned_rice(rd, 2), BitsAhead(rd) = 0)
    /\ (read_unsigned_rice(rd, 2).t = "Err" \/ read_unsigned_rice(rd, 2).v <= 16) =>
          CodedRead(read_ulong(rd), BitsAhead(rd) = 0)

(* C11: a read of any kind that reaches the end of the source before it has  *)
(* its bits fails with the Io kind, in the header as in a pass.  A call of   *)
(* next() whose pass fails so yields Err(Io), hands out no sample and        *)
(* leaves output_buf and output_pos alone; a call that starts with nothing   *)
(* left to read yields Err(Io); and every unit a later pass puts out is made *)
(* of blocks that pass decoded itself, one per channel, so the blocks of     *)
(* the failed pass are never emitted.                                        *)
C11_EofFailsWithIo ==
    [][/\ pc = "start" => EofIsIo(BitReader_new(input))
       /\ (pc' = "failed" /\ last'.e.kind \notin HeaderErrors) =>
             /\ last' = ItemErr(IoError)
             /\ parse_header(BitReader_new(input)).r.reader = << >>
       /\ pc' = "open" =>
             /\ EofIsIo(decoder'.reader)
             /\ hist'.pass = "ok" =>
                   /\ Cardinality(BlockSteps(hist'.log)) = decoder'.channels
                   /\ {st.pre.current_channel : st \in BlockSteps(hist'.log)}
                         = 0..(decoder'.channels - 1)
       /\ (pc = "open" /\ calls' = calls + 1 /\ hist'.pass = "err"
              /\ last'.e.kind = "Io") =>
             /\ pc' = "open"
             /\ last' = ItemErr(IoError)
             /\ decoder'.reader.reader = << >>
             /\ delivered' = delivered
             /\ decoder'.output_buf = decoder.output_buf
             /\ decoder'.output_pos = decoder.output_pos
       /\ (pc = "open" /\ calls' = calls + 1 /\ Pending = 0 /\ ~decoder.finished
              /\ decoder.pending_cmd = None /\ decoder.channels > 0
              /\ BitsAhead(decoder.reader) = 0) =>
             last' = ItemErr(IoError)]_vars

\* the source ended in the second block of a two-channel pass, behind a pass
\* whose samples were handed out, and two more calls have been made since
C11_Witness ==
    /\ pc = "open"
    /\ decoder.channels = 2
    /\ hist.lost = 1
    /\ hist.errAt > 0
    /\ calls >= hist.errAt + 2
    /\ last = ItemErr(IoError)
    /\ decoder.reader.reader = << >>
    /\ delivered # << >>

\* the steps of a pass that dispatched the command id
StepsOf(log, id) == {st \in Steps(log) : st.cmd = id}

\* the energy and the order of the QLPC command of step st, read off the
\* reader the command was dispatched on
QlpcEnergyField(st) == read_unsigned_rice(st.pre.reader, ENERGYSIZE)
QlpcOrderField(st) == read_unsigned_rice(QlpcEnergyField(st).r, LPCQSIZE)

\* step st failed with InvalidLpcOrder(order) right behind the order field
OrderRejected(st, order) ==
    /\ st.post.t = "Err"
    /\ st.post.e = ShnError("InvalidLpcOrder", order.v)
    /\ st.post.r.reader = order.r
    /\ st.post.r.current_channel = st.pre.current_channel
    /\ st.post.r.buffers = st.pre.buffers
    /\ st.post.r.means = st.pre.means

(* C12: a QLPC command fails with InvalidLpcOrder(order) exactly when the    *)
(* order read exceeds maxnlpc or exceeds 128; the failure comes right behind *)
(* the order field (no coefficient, no residual is read) and leaves          *)
(* current_channel, the channel buffers and the mean windows as they were.   *)
(* A version 1 stream has maxnlpc = 0, so each of its QLPC commands of order *)
(* 1 or more fails.                                                          *)
C12_QlpcOrderChecked ==
    /\ (pc = "open" /\ decoder.version = 1) => decoder.maxnlpc = 0
    /\ \A st \in StepsOf(hist.log, FN_QLPC) :
          (QlpcEnergyField(st).t = "Ok" /\ QlpcOrderField(st).t = "Ok") =>
             /\ (QlpcOrderField(st).v > st.pre.maxnlpc \/ QlpcOrderField(st).v > 128)
                   <=> (st.post.t = "Err" /\ st.post.e.kind = "InvalidLpcOrder")
             /\ (QlpcOrderField(st).v > st.pre.maxnlpc \/ QlpcOrderField(st).v > 128)
                   => OrderRejected(st, QlpcOrderField(st))
             /\ (st.pre.version = 1 /\ QlpcOrderField(st).v >= 1)
                   => OrderRejected(st, QlpcOrderField(st))

\* a version 1 stream whose QLPC command of order 1 was rejected, with the
\* coefficient and the residual still unread
C12_Witness ==
    /\ pc = "open"
    /\ decoder.version = 1
    /\ last = ItemErr(ShnError("InvalidLpcOrder", 1))
    /\ \E st \in StepsOf(hist.log, FN_QLPC) :
          /\ OrderRejected(st, QlpcOrderField(st))
          /\ BitsAhead(st.post.r.reader) > 0

\* the size a BLOCKSIZE command carries, read off the reader the command
\* was dispatched on
BlockSizeField(st) == read_ulong(st.pre.reader)

\* every channel buffer of the decoder d is sized for d's blocksize
BuffersSized(d) ==
    \A c \in DOMAIN d.buffers :
        /\ d.buffers[c].blocksize = d.blocksize
        /\ Len(d.buffers[c].data) = NWRAP + d.blocksize

(* C13: a BLOCKSIZE command that reads n fails with InvalidBlockSize(n)      *)
(* when n <= 0 or n > 65536 and then leaves blocksize and every channel      *)
(* buffer as they were; otherwise it sets blocksize to n and resizes every   *)
(* channel's buffer to n.  Hence after each command, whatever it was, every  *)
(* channel buffer's block size equals the decoder's blocksize.               *)
C13_BlockSizeChecked ==
    /\ pc = "open" => BuffersSized(decoder)
    /\ \A st \in Steps(hist.log) : st.post.t \in {"Ok", "Err"} => BuffersSized(st.post.r)
    /\ \A st \in StepsOf(hist.log, FN_BLOCKSIZE) :
          BlockSizeField(st).t = "Ok" =>
             IF BlockSizeField(st).v <= 0 \/ BlockSizeField(st).v > 65536
             THEN /\ st.post.t = "Err"
                  /\ st.post.e = ShnError("InvalidBlockSize", BlockSizeField(st).v)
                  /\ st.post.r.blocksize = st.pre.blocksize
                  /\ st.post.r.buffers = st.pre.buffers
             ELSE /\ st.post.t = "Ok"
                  /\ st.post.r.blocksize = BlockSizeField(st).v
                  /\ st.post.r.reader = BlockSizeField(st).r
                  /\ \A c \in DOMAIN st.post.r.buffers :
                        st.post.r.buffers[c] = resize(st.pre.buffers[c], BlockSizeField(st).v)

\* a BLOCKSIZE command between the two blocks of a pass changed the block
\* size, and the pass went on to deliver
C13_Witness ==
    /\ pc = "open"
    /\ decoder.channels = 2
    /\ hist.pass = "ok"
    /\ \E st \in StepsOf(hist.log, FN_BLOCKSIZE) :
          /\ st.post.t = "Ok"
          /\ st.pre.current_channel = 1
          /\ st.post.r.blocksize # st.pre.blocksize

\* six successive read_ulong calls on the bytes behind the five-byte preamble
SixUlongs(bytes) == read_ulongs(BitReader_new(SubSeq(bytes, 6, Len(bytes))), 6, << >>)

\* h, a result of parse_header, is a header of version 2 with file_type 5,
\* channels 2, blocksize 256, maxnlpc 0, nmean 4 and nskip 0
RealHeaderParsed(h) ==
    /\ h.t = "Ok"
    /\ h.v.header.version = 2
    /\ h.v.header.file_type = 5
    /\ h.v.header.channels = 2
    /\ h.v.header.blocksize = 256
    /\ h.v.header.maxnlpc = 0
    /\ h.v.header.nmean = 4
    /\ h.v.header.nskip = 0

(* C14, as the specification states it: on the 11-byte input                 *)
(* 61 6A 6B 67 02 FB B1 70 09 F9 20 six successive read_ulong calls behind   *)
(* the preamble return 5, 2, 256, 0, 4, 0, and header parsing of the full    *)
(* input yields version 2 and those values.                                  *)
C14_HeaderScenario ==
    (input = RealHeader /\ pc # "start") =>
        /\ SixUlongs(input).t = "Ok"
        /\ SixUlongs(input).v = <<5, 2, 256, 0, 4, 0>>
        /\ RealHeaderParsed(parse_header(BitReader_new(input)))
        /\ pc = "open"

(* C14, amended: the six read_ulong calls return 5, 2, 256, 0, 4, 0, but     *)
(* header parsing of the 11-byte input fails with the Io kind and yields no  *)
(* reader: behind nskip the parser reads a command id, and the input ends    *)
(* in padding.  With a command id behind the fields (last byte 30 instead    *)
(* of 20: DIFF0) parsing yields version 2 and those values, and the decoder  *)
(* is built from them with DIFF0 as its pending command.                     *)
C14_HeaderFieldsThenCommand ==
    /\ (input = RealHeader /\ pc # "start") =>
          /\ SixUlongs(input).t = "Ok"
          /\ SixUlongs(input).v = <<5, 2, 256, 0, 4, 0>>
          /\ pc = "failed"
          /\ last = ItemErr(IoError)
          /\ decoder = NoDecoder
    /\ (input = RealHeaderThenCommand /\ pc # "start") =>
          /\ SixUlongs(input).t = "Ok"
          /\ SixUlongs(input).v = <<5, 2, 256, 0, 4, 0>>
          /\ RealHeaderParsed(parse_header(BitReader_new(input)))
          /\ parse_header(BitReader_new(input)).v.header.first_audio_cmd = Some(FN_DIFF0)
          /\ pc = "open"
          /\ decoder.version = 2
          /\ decoder.channels = 2
          /\ decoder.blocksize = 256
          /\ decoder.maxnlpc = 0
          /\ decoder.nmean = 4
          /\ info.channels = 2

\* ShnReader::new has run on the 11-byte input and has failed
C14_Witness ==
    /\ input = RealHeader
    /\ pc = "failed"
    /\ last = ItemErr(IoError)

(* C15: for every input that opens, the channel count info() reports is the *)
(* channel count the decoder decodes and interleaves with, whatever channel *)
(* count an embedded WAVE header declares.                                  *)
C15_InfoChannels == pc = "open" => info.channels = decoder.channels

\* the history prefix of a channel buffer: indices -3, -2, -1
History(buf) == <<get(buf, -3), get(buf, -2), get(buf, -1)>>

(* C16: behind every call, and behind every block-producing command, the     *)
(* history prefix of every channel holds the last three samples produced     *)
(* for that channel, zeros in front while fewer than three have been         *)
(* produced, whatever the block sizes were (below 3, changed by BLOCKSIZE).  *)
(* For every buffer reached, wrap_around puts the samples at B-3, B-2, B-1   *)
(* at the indices -3, -2, -1.                                                *)
C16_HistoryIsLastThree ==
    pc = "open" =>
        /\ \A c \in DOMAIN decoder.buffers :
              /\ History(decoder.buffers[c])
                    = IF calls = 0 THEN <<0, 0, 0>> ELSE hist.tails[c]
              /\ \A i \in 0..2 :
                    get(wrap_around(decoder.buffers[c]), i - 3)
                       = get(decoder.buffers[c], decoder.buffers[c].blocksize - 3 + i)
        /\ \A st \in BlockSteps(hist.log) :
              History(st.post.r.buffers[st.pre.current_channel + 1])
                 = LastThree(History(st.pre.buffers[st.pre.current_channel + 1])
                             \o block_samples(st.post.r.buffers[st.pre.current_channel + 1]))

\* a channel has had four samples in blocks of two and of one, and its last
\* three differ from each other
C16_Witness ==
    /\ pc = "open"
    /\ hist.resized
    /\ decoder.blocksize = 1
    /\ hist.blocks = 3
    /\ hist.tails[1][1] # hist.tails[1][2]
    /\ hist.tails[1][2] # hist.tails[1][3]
    /\ hist.tails[1][1] # 0

(* C17: every block-producing command that completes advances               *)
(* current_channel by exactly one modulo channels, so current_channel is    *)
(* always in [0, channels), and the k-th block-producing command completed  *)
(* in the stream (counting from 0) is decoded into channel k mod channels.  *)
C17_RoundRobin ==
    pc = "open" =>
        /\ decoder.current_channel \in 0..(decoder.channels - 1)
        /\ decoder.channels > 0 => decoder.current_channel = hist.blocks % decoder.channels
        /\ \A st \in BlockSteps(hist.log) :
              /\ st.pre.current_channel \in 0..(decoder.channels - 1)
              /\ st.post.r.current_channel
                    = (st.pre.current_channel + 1) % decoder.channels

\* the reader behind the payload of the VERBATIM command of step st: the
\* length, then that many bytes
VerbatimLength(st) == read_unsigned_rice(st.pre.reader, VERBATIM_CKSIZE_SIZE)
VerbatimPayload(st) == read_verbatim_bytes(VerbatimLength(st).r, VerbatimLength(st).v, << >>)

(* C18: BLOCKSIZE, BITSHIFT and VERBATIM leave current_channel as it was and *)
(* count no block: the blocks of a pass are the DIFF*, QLPC and ZERO         *)
(* commands it completed.  VERBATIM reads its length and that many bytes and *)
(* changes nothing else: blocksize, bitshift, every channel buffer and every *)
(* mean window stay as they were.                                            *)
C18_NonBlockCommands ==
    /\ hist.log.blocks
          = Cardinality({i \in DOMAIN hist.log.steps :
                            /\ hist.log.steps[i].cmd \in BlockCommands
                            /\ hist.log.steps[i].post.t = "Ok"})
    /\ \A st \in Steps(hist.log) :
          (st.cmd \in {FN_BLOCKSIZE, FN_BITSHIFT, FN_VERBATIM}
              /\ st.post.t \in {"Ok", "Err"}) =>
             /\ st.post.r.current_channel = st.pre.current_channel
             /\ st.post.t = "Ok" => st.post.v = 0
             /\ st.cmd = FN_VERBATIM =>
                   /\ st.post.r.blocksize = st.pre.blocksize
                   /\ st.post.r.bitshift = st.pre.bitshift
                   /\ st.post.r.buffers = st.pre.buffers
                   /\ st.post.r.means = st.pre.means
                   /\ st.post.t = "Ok" =>
                         /\ VerbatimPayload(st).t = "Ok"
                         /\ st.post.r.reader = VerbatimPayload(st).r

\* a pass of two channels that delivered, with a VERBATIM command of two
\* bytes and a BITSHIFT command between its two blocks
C18_Witness ==
    /\ pc = "open"
    /\ decoder.channels = 2
    /\ hist.pass = "ok"
    /\ Len(hist.log.steps) = 4
    /\ \E st \in StepsOf(hist.log, FN_VERBATIM) :
          /\ st.pre.current_channel = 1
          /\ VerbatimLength(st).v = 2
          /\ st.post.t = "Ok"
    /\ \E st \in StepsOf(hist.log, FN_BITSHIFT) :
          /\ st.pre.current_channel = 1
          /\ st.post.t = "Ok"
          /\ st.post.r.bitshift # st.pre.bitshift

\* the predictor p of order k as an integer of 64 bits: h is the three
\* samples s[i-3], s[i-2], s[i-1]
Predictor(k, coff, h) ==
    CASE k = 0 -> WOfInt(coff)
      [] k = 1 -> WOfInt(h[3])
      [] k = 2 -> WAdd(WMul(WOfInt(h[3]), 2), WNeg(WOfInt(h[2])))
      [] k = 3 -> WAdd(WAdd(WMul(WOfInt(h[3]), 3), WMul(WOfInt(h[2]), -3)), WOfInt(h[1]))

\* the n samples s[i] = r + p read from rd, each reduced to 32 bits, with the
\* reader behind them; ok is FALSE when a residual could not be read
RECURSIVE DiffSamples(_, _, _, _, _, _, _)
DiffSampled(res, energy, k, coff, h, n, acc, s) ==
    DiffSamples(res.r, energy, k, coff, <<h[2], h[3], s>>, n - 1, Append(acc, s))
DiffResidual(res, energy, k, coff, h, n, acc) ==
    IF res.t # "Ok" THEN [ok |-> FALSE, reader |-> res.r, s |-> acc]
    ELSE DiffSampled(res, energy, k, coff, h, n, acc,
                     WToI32(WAdd(WOfInt(res.v), Predictor(k, coff, h))))
DiffSamples(rd, energy, k, coff, h, n, acc) ==
    IF n = 0 THEN [ok |-> TRUE, reader |-> rd, s |-> acc]
    ELSE DiffResidual(read_signed_rice(rd, energy), energy, k, coff, h, n, acc)

\* the DIFF command of step st against the samples e expected of it
DiffBlock(st, ch, e) ==
    /\ e.ok
    /\ st.post.r.reader = e.reader
    /\ block_samples(st.post.r.buffers[ch + 1])
          = [i \in 1..st.pre.blocksize |->
                IF st.pre.bitshift > 0 THEN ShlI32(e.s[i], st.pre.bitshift % 32)
                ELSE e.s[i]]
DiffEnergy(st, ch, energy) ==
    /\ energy.t = "Ok"
    /\ DiffBlock(st, ch,
                 DiffSamples(energy.r, energy.v, st.cmd, coffset(st.pre.means[ch + 1]),
                             History(st.pre.buffers[ch + 1]), st.pre.blocksize, << >>))
DiffSteps(log) ==
    {st \in Steps(log) : st.cmd \in {FN_DIFF0, FN_DIFF1, FN_DIFF2, FN_DIFF3}}

(* C19: a completed DIFFk command on channel ch has read the energy as       *)
(* read_unsigned_rice(3) once and then blocksize residuals r as              *)
(* read_signed_rice(energy), and the block it leaves is s[i] = r + p reduced *)
(* to 32 bits (shifted left by bitshift when that is positive), with p the   *)
(* coffset of the channel's mean window before the command for k = 0,        *)
(* s[i-1] for k = 1, 2 s[i-1] - s[i-2] for k = 2 and                         *)
(* 3 s[i-1] - 3 s[i-2] + s[i-3] for k = 3, the indices below 0 being the     *)
(* channel's history before the command.                                     *)
C19_FixedPredictors ==
    \A st \in DiffSteps(hist.log) :
        st.post.t = "Ok" =>
            DiffEnergy(st, st.pre.current_channel,
                       read_unsigned_rice(st.pre.reader, ENERGYSIZE))

\* a pass completed a DIFF3 block on a history of three samples that are not
\* all equal, and a DIFF0 block on a mean window whose coffset is not 0
C19_Witness ==
    /\ \E st \in StepsOf(hist.log, FN_DIFF3) :
          /\ st.post.t = "Ok"
          /\ st.pre.blocksize > 0
          /\ History(st.pre.buffers[st.pre.current_channel + 1])[3] # 0
          /\ History(st.pre.buffers[st.pre.current_channel + 1])[2]
                # History(st.pre.buffers[st.pre.current_channel + 1])[3]
    /\ \E st \in StepsOf(hist.log, FN_DIFF0) :
          /\ st.post.t = "Ok"
          /\ st.pre.blocksize > 0
          /\ coffset(st.pre.means[st.pre.current_channel + 1]) # 0

(* C20: the sample arithmetic of DIFF1..DIFF3 and of QLPC (the predictor sum, *)
(* the addition s[i] = r + p, the addition of the narrowed QLPC prediction)  *)
(* wraps: no such command fails because a result left the 32-bit range.     *)
C20_ArithmeticWraps ==
    \A st \in Steps(hist.log) :
        st.cmd \in {FN_DIFF0, FN_DIFF1, FN_DIFF2, FN_DIFF3, FN_QLPC} =>
            ~(st.post.t = "Panic" /\ st.post.why = "arithmetic overflow")

\* sum over j in [0, order) of c[j] * s[i-1-j] as an integer of 64 bits:
\* prior holds the samples before s[i], the latest last
RECURSIVE QlpcSum(_, _, _)
QlpcSum(c, prior, j) ==
    IF j = 0 THEN WOfInt(0)
    ELSE WAdd(QlpcSum(c, prior, j - 1),
              WMul(WOfInt(prior[Len(prior) - (j - 1)]), c[j]))

\* the n samples s[i] = r + (sum >> 5) read from rd, each reduced to 32 bits
RECURSIVE QlpcSamples(_, _, _, _, _, _)
QlpcSampled(res, energy, c, prior, n, acc, s) ==
    QlpcSamples(res.r, energy, c, Append(prior, s), n - 1, Append(acc, s))
QlpcResidual(res, energy, c, prior, n, acc) ==
    IF res.t # "Ok" THEN [ok |-> FALSE, reader |-> res.r, s |-> acc]
    ELSE QlpcSampled(res, energy, c, prior, n, acc,
                     WToI32(WAdd(WOfInt(res.v),
                                 WOfInt(WToI32(WShr(QlpcSum(c, prior, Len(c)), 5))))))
QlpcSamples(rd, energy, c, prior, n, acc) ==
    IF n = 0 THEN [ok |-> TRUE, reader |-> rd, s |-> acc]
    ELSE QlpcResidual(read_signed_rice(rd, energy), energy, c, prior, n, acc)

\* the QLPC command of step st against the samples e expected of it
QlpcBlock(st, ch, e) ==
    /\ e.ok
    /\ st.post.r.reader = e.reader
    /\ block_samples(st.post.r.buffers[ch + 1])
          = [i \in 1..st.pre.blocksize |->
                IF st.pre.bitshift > 0 THEN ShlI32(e.s[i], st.pre.bitshift % 32)
                ELSE e.s[i]]
QlpcCoeffs(st, ch, energy, cs) ==
    /\ cs.t = "Ok"
    /\ QlpcBlock(st, ch,
                 QlpcSamples(cs.r, energy.v, cs.v,
                             Zeros(Len(cs.v)) \o History(st.pre.buffers[ch + 1]),
                             st.pre.blocksize, << >>))
QlpcAccepted(st) ==
    /\ QlpcEnergyField(st).t = "Ok"
    /\ QlpcOrderField(st).t = "Ok"
    /\ QlpcOrderField(st).v <= st.pre.maxnlpc
    /\ st.pre.maxnlpc <= 128

(* C21: a QLPC command whose order satisfies order <= maxnlpc <= 128 decodes *)
(* its block, for orders above the history length 3 too: it does not fail on *)
(* an index outside the channel buffer, and the block it leaves is           *)
(* s[i] = r + ((sum over j in [0, order) of c[j] * s[i-1-j]) >> 5), the sum  *)
(* in 64 bits, the shift arithmetic, the indices below 0 being the channel's *)
(* samples from before the command.                                          *)
C21_QlpcAnyOrder ==
    \A st \in StepsOf(hist.log, FN_QLPC) :
        QlpcAccepted(st) =>
            /\ ~(st.post.t = "Panic" /\ st.post.why = "index out of bounds")
            /\ st.post.t = "Ok" =>
                  QlpcCoeffs(st, st.pre.current_channel, QlpcEnergyField(st),
                             read_coeffs(QlpcOrderField(st).r, QlpcOrderField(st).v, << >>))

\* the slots v of a window of n, each split as v = n * quotient + remainder
\* with 0 <= remainder < n
RECURSIVE Quotients(_, _, _)
Quotients(v, n, i) == IF i = 0 THEN 0 ELSE Quotients(v, n, i - 1) + (v[i] \div n)
RECURSIVE Remainders(_, _, _)
Remainders(v, n, i) == IF i = 0 THEN 0 ELSE Remainders(v, n, i - 1) + (v[i] % n)

\* (sum + n/2) / n for the sum n * q + r, the division rounding toward zero
BiasedQuotient(q, r, n) ==
    IF q + (r + n \div 2) \div n < 0 /\ (r + n \div 2) % n # 0
    THEN q + (r + n \div 2) \div n + 1
    ELSE q + (r + n \div 2) \div n

\* c is an integer nearest to (n * q + r) / n
Nearest(c, q, r, n) ==
    /\ 2 * (n * (c - q) - r) <= n
    /\ 2 * (r - n * (c - q)) <= n

\* the sum of the slots is negative
SlotsNegative(v) ==
    Quotients(v, Len(v), Len(v)) + Remainders(v, Len(v), Len(v)) \div Len(v) < 0

(* C22 (as stated): coffset() is sum / nmean rounded to the nearest integer, *)
(* for all slot contents, windows of negative sum included.                  *)
C22_CoffsetNearest ==
    (unit.kind = "mean" /\ Len(unit.acc.values) > 0) =>
        Nearest(unit.coff,
                Quotients(unit.acc.values, Len(unit.acc.values), Len(unit.acc.values)),
                Remainders(unit.acc.values, Len(unit.acc.values), Len(unit.acc.values)),
                Len(unit.acc.values))

(* C22: coffset() is (sum + nmean/2) / nmean with sum the 64-bit sum of all  *)
(* nmean slots and the division rounding toward zero, and 0 when nmean = 0.  *)
(* That is sum / nmean rounded to the nearest integer when sum >= 0; one     *)
(* push of 10 into an empty window of 4 gives 3, four pushes of 10 give 10.  *)
C22_CoffsetTruncates ==
    unit.kind = "mean" =>
        /\ Len(unit.acc.values) = 0 => unit.coff = 0
        /\ Len(unit.acc.values) > 0 =>
              /\ unit.coff
                    = BiasedQuotient(
                         Quotients(unit.acc.values, Len(unit.acc.values), Len(unit.acc.values)),
                         Remainders(unit.acc.values, Len(unit.acc.values), Len(unit.acc.values)),
                         Len(unit.acc.values))
              /\ ~SlotsNegative(unit.acc.values) => C22_CoffsetNearest
        /\ (Len(unit.acc.values) = 4 /\ unit.pushed = <<10>>) => unit.coff = 3
        /\ (Len(unit.acc.values) = 4 /\ unit.pushed = <<10, 10, 10, 10>>) => unit.coff = 10

\* a window of 4 whose slots sum to -7: coffset is -1, not the nearest -2
C22_Witness ==
    /\ unit.kind = "mean"
    /\ unit.pushed = <<-3, -3, -1>>
    /\ unit.acc.values = <<-3, -3, -1, 0>>
    /\ unit.coff = -1

\* the pushes (numbered from 0) that went to slot k of a window of n
PushesTo(pushed, k, n) == {i \in 0..(Len(pushed) - 1) : i % n = k}

\* what slot k holds after the pushes: the latest mean pushed to it
SlotAfter(pushed, k, n) ==
    IF PushesTo(pushed, k, n) = {} THEN 0
    ELSE pushed[1 + CHOOSE i \in PushesTo(pushed, k, n) :
                       \A j \in PushesTo(pushed, k, n) : j <= i]

Smaller(a, b) == IF a < b THEN a ELSE b

(* C23: the mean window is a circular queue.  After p pushes into a window   *)
(* of nmean > 0 slots, push number i (from 0) having gone to slot            *)
(* i mod nmean, each slot holds the latest mean pushed to it and 0 if none   *)
(* was: the window holds the most recent min(p, nmean) means and 0 in the    *)
(* other slots.  With nmean = 0 a push changes nothing and coffset() is 0.   *)
C23_CircularWindow ==
    unit.kind = "mean" =>
        IF Len(unit.acc.values) = 0
        THEN unit.acc = MeanAccumulator_new(0) /\ unit.coff = 0
        ELSE /\ unit.acc.index = Len(unit.pushed)
             /\ \A k \in 0..(Len(unit.acc.values) - 1) :
                   unit.acc.values[k + 1]
                      = SlotAfter(unit.pushed, k, Len(unit.acc.values))
             /\ Cardinality({k \in DOMAIN unit.acc.values :
                                \E i \in 1..Smaller(Len(unit.pushed), Len(unit.acc.values)) :
                                    /\ (Len(unit.pushed) - i) % Len(unit.acc.values) = k - 1
                                    /\ unit.acc.values[k]
                                          = unit.pushed[Len(unit.pushed) - i + 1]})
                   = Smaller(Len(unit.pushed), Len(unit.acc.values))
             /\ \A k \in DOMAIN unit.acc.values :
                   k > Len(unit.pushed) => unit.acc.values[k] = 0

\* the fifth push into a window of 4 has overwritten the first
C23_Witness ==
    /\ unit.kind = "mean"
    /\ unit.pushed = <<10, -1, -3, I32Max, -3>>
    /\ unit.acc.values = <<-3, -1, -3, I32Max>>
    /\ unit.acc.index = 5

\* S: the 64-bit sum of the samples of a block, shifted right by bitshift
ShiftedSum(block, bitshift) ==
    IF bitshift > 0 THEN WShr(WSum(block, Len(block)), bitshift % 64)
    ELSE WSum(block, Len(block))

\* (S + blocksize/2) / blocksize, the division rounding toward zero
BlockMean(block, bitshift) ==
    WToI32(WDiv(WAdd(ShiftedSum(block, bitshift), WOfInt(Len(block) \div 2)), Len(block)))

\* the difference m * blocksize - S is at most blocksize / 2 either way
MeanDistance(m, block, bitshift) ==
    WAdd(WMul(WOfInt(m), Len(block)), WNeg(ShiftedSum(block, bitshift)))
MeanNearest(m, block, bitshift) ==
    /\ WFitsI32(MeanDistance(m, block, bitshift))
    /\ 2 * WToI32(MeanDistance(m, block, bitshift)) <= Len(block)
    /\ -2 * WToI32(MeanDistance(m, block, bitshift)) <= Len(block)

\* the mean that step st pushed for channel ch (nmean > 0)
PushedMean(st, ch) ==
    st.post.r.means[ch + 1].values[(st.pre.means[ch + 1].index % st.pre.nmean) + 1]

\* the window w with one more push, of m
WindowPushed(w, m, n) ==
    [values |-> [k \in 1..n |-> IF k = (w.index % n) + 1 THEN m ELSE w.values[k]],
     index |-> w.index + 1]

(* C24 (as stated): the mean pushed after a block is the block's mean        *)
(* S / blocksize rounded to the nearest integer.                             *)
C24_MeanNearest ==
    \A st \in BlockSteps(hist.log) :
        (st.pre.nmean > 0 /\ st.pre.blocksize > 0) =>
            MeanNearest(PushedMean(st, st.pre.current_channel),
                        block_samples(st.post.r.buffers[st.pre.current_channel + 1]),
                        st.pre.bitshift)

\* the finalization of step st, a completed block of channel ch
Finalized(st, ch) ==
    /\ History(st.post.r.buffers[ch + 1])
          = LastThree(History(st.pre.buffers[ch + 1])
                      \o block_samples(st.post.r.buffers[ch + 1]))
    /\ st.post.r.current_channel = (ch + 1) % st.pre.channels
    /\ \A c \in DOMAIN st.pre.means : c # ch + 1 => st.post.r.means[c] = st.pre.means[c]
    /\ st.pre.nmean = 0 => st.post.r.means = st.pre.means
    /\ st.pre.nmean > 0 =>
          /\ st.post.r.means[ch + 1]
                = WindowPushed(st.pre.means[ch + 1],
                               BlockMean(block_samples(st.post.r.buffers[ch + 1]),
                                         st.pre.bitshift),
                               st.pre.nmean)
          /\ ~WIsNeg(ShiftedSum(block_samples(st.post.r.buffers[ch + 1]), st.pre.bitshift))
                => MeanNearest(PushedMean(st, ch),
                               block_samples(st.post.r.buffers[ch + 1]), st.pre.bitshift)

(* C24: every completed DIFF*, QLPC and ZERO block is finalized in the order *)
(* shift, mean, history, advance.  With nmean > 0 exactly one mean is        *)
(* pushed, into the window of the channel just decoded, and it is            *)
(* (S + blocksize/2) / blocksize with the division rounding toward zero,     *)
(* where S is the 64-bit sum of the block's shifted samples shifted right by *)
(* bitshift: the block's mean rounded to nearest when S >= 0.  With          *)
(* nmean = 0 no mean is pushed.  The history is taken from the shifted       *)
(* samples, and current_channel advances by one modulo channels.             *)
C24_Finalization ==
    /\ \A st \in Steps(hist.log) :
          (st.cmd \in BlockCommands /\ st.post.t = "Ok") => st \in BlockSteps(hist.log)
    /\ \A st \in BlockSteps(hist.log) : Finalized(st, st.pre.current_channel)

\* a shifted block of three samples of channel 1 that sum to -2 after the
\* shift back: the mean pushed is 0, into the second window only
C24_Witness ==
    \E st \in BlockSteps(hist.log) :
        /\ st.pre.current_channel = 1
        /\ st.pre.bitshift = 1
        /\ st.pre.nmean = 2
        /\ block_samples(st.post.r.buffers[2]) = <<-2, -2, 0>>
        /\ PushedMean(st, 1) = 0
        /\ st.post.r.means[1] = st.pre.means[1]
        /\ st.post.r.means[2] # st.pre.means[2]

\* n codes of parameter k read and dropped
RECURSIVE SkipCodes(_, _, _)
SkipCode(c, n, k) == IF c.t # "Ok" THEN c ELSE SkipCodes(c.r, n - 1, k)
SkipCodes(rd, n, k) ==
    IF n = 0 THEN Ok(rd, 0) ELSE SkipCode(read_unsigned_rice(rd, k), n, k)

\* the first command id of the stream at rd that is not VERBATIM, with the
\* reader right behind it: every VERBATIM command in front of it is passed
\* over, its length read with parameter 5 and each of its bytes with 8
RECURSIVE LeadingVerbatims(_)
AfterPayload(p) == IF p.t # "Ok" THEN p ELSE LeadingVerbatims(p.r)
AfterLength(n) == IF n.t # "Ok" THEN n ELSE AfterPayload(SkipCodes(n.r, n.v, 8))
AfterId(c) ==
    IF c.t # "Ok" \/ c.v # FN_VERBATIM THEN c ELSE AfterLength(read_unsigned_rice(c.r, 5))
LeadingVerbatims(rd) == AfterId(read_unsigned_rice(rd, FNSIZE))

\* the bitstream of the input, behind magic and version
HeaderBits == BitReader_new(SubSeq(input, 6, Len(input)))

\* the decoder starts on the command c found in front of the stream
CommandsAt(c) ==
    /\ c.t = "Ok"
    /\ decoder.pending_cmd = <<c.v>>
    /\ decoder.reader = c.r
SkippedThen(skip) == skip.t = "Ok" /\ CommandsAt(LeadingVerbatims(skip.r))

\* f: file_type and channels read as two ulongs
Version1Header(f) ==
    /\ f.t = "Ok"
    /\ decoder.channels = f.v[2]
    /\ decoder.blocksize = 256
    /\ decoder.maxnlpc = 0
    /\ decoder.nmean = 4
    /\ CommandsAt(LeadingVerbatims(f.r))

\* f: file_type, channels, blocksize, maxnlpc, nmean, nskip read as six ulongs
Version2Header(f) ==
    /\ f.t = "Ok"
    /\ decoder.channels = f.v[2]
    /\ decoder.blocksize = f.v[3]
    /\ decoder.maxnlpc = f.v[4]
    /\ decoder.nmean = f.v[5]
    /\ SkippedThen(read_ulongs(f.r, f.v[6], << >>))

(* C25: for version 1 the header parser reads file_type and channels only    *)
(* and takes blocksize 256, maxnlpc 0, nmean 4, nskip 0, so the first        *)
(* command is read from the bits right behind channels; for version 2 and 3  *)
(* it reads blocksize, maxnlpc, nmean, nskip as four ulongs in that order    *)
(* and then reads and drops exactly nskip ulongs in front of the first       *)
(* command.                                                                  *)
C25_HeaderByVersion ==
    (pc = "open" /\ calls = 0) =>
        /\ decoder.version = input[5]
        /\ IF input[5] = 1 THEN Version1Header(read_ulongs(HeaderBits, 2, << >>))
           ELSE Version2Header(read_ulongs(HeaderBits, 6, << >>))

\* a version 1 stream opened: the defaults apply and the command right
\* behind channels, a BLOCKSIZE whose id takes four bits, is pending
C25_Witness ==
    /\ pc = "open"
    /\ calls = 0
    /\ input[5] = 1
    /\ decoder.blocksize = 256
    /\ decoder.nmean = 4
    /\ decoder.pending_cmd = <<FN_BLOCKSIZE>>
    /\ BitsAhead(read_ulongs(HeaderBits, 2, << >>).r) = BitsAhead(decoder.reader) + 4

\* the reader behind the header fields and the skipped words of the input
FieldsRead(f) ==
    IF input[5] = 1 THEN f ELSE read_ulongs(f.r, f.v[6], << >>)
FieldsEnd == FieldsRead(read_ulongs(HeaderBits, IF input[5] = 1 THEN 2 ELSE 6, << >>))

\* step i of a pass took its id from where d stood: the pending id if there
\* was one, otherwise the code read at d's reader
FetchedPending(st, d) ==
    /\ st.cmd = d.pending_cmd[1]
    /\ st.pre.reader = d.reader
    /\ st.pre.pending_cmd = None
FetchedFrom(st, c) ==
    /\ c.t = "Ok"
    /\ st.cmd = c.v
    /\ st.pre.reader = c.r
    /\ st.pre.pending_cmd = None
Fetched(st, d) ==
    IF d.pending_cmd # None THEN FetchedPending(st, d)
    ELSE FetchedFrom(st, read_unsigned_rice(d.reader, FNSIZE))

(* C26: header parsing passes over every leading VERBATIM command with its   *)
(* whole payload (length read with parameter 5, each byte with 8) and stops  *)
(* behind the first other command id, which it keeps as pending.  The first  *)
(* command the decoder dispatches is that id, taken without a read; it is    *)
(* then gone, and every later id is read right behind the command            *)
(* dispatched before it, within a pass and from one pass to the next: the    *)
(* commands dispatched are the commands of the stream in order, none         *)
(* skipped, none dispatched twice.  (A decoder of no channels dispatches     *)
(* nothing.)                                                                 *)
C26_CommandsInOrder ==
    pc = "open" =>
        /\ calls = 0 =>
              /\ CommandsAt(LeadingVerbatims(FieldsEnd.r))
              /\ decoder.pending_cmd[1] # FN_VERBATIM
        /\ \A i \in DOMAIN hist.log.steps :
              IF i = 1 THEN Fetched(hist.log.steps[1], hist.start)
              ELSE /\ hist.log.steps[i - 1].post.t = "Ok"
                   /\ Fetched(hist.log.steps[i], hist.log.steps[i - 1].post.r)
        /\ hist.log.steps # << >> =>
              /\ decoder.pending_cmd = None
              /\ hist.log.steps[1].cmd = hist.log.cmds[1]
              /\ Len(hist.log.cmds) = Len(hist.log.steps)
              /\ hist.pass \in {"ok", "quit"} =>
                    decoder.reader = hist.log.steps[Len(hist.log.steps)].post.r.reader

\* the first pass of a stream of two channels whose header is followed by a
\* VERBATIM command: the pending DIFF1 was dispatched, then the DIFF0 read
\* behind it
C26_Witness ==
    /\ pc = "open"
    /\ calls = 1
    /\ hist.pass = "ok"
    /\ hist.start.pending_cmd = <<FN_DIFF1>>
    /\ BitsAhead(FieldsEnd.r) > BitsAhead(hist.start.reader) + 4
    /\ Len(hist.log.steps) = 2
    /\ hist.log.steps[1].cmd = FN_DIFF1
    /\ hist.log.steps[1].pre.reader = hist.start.reader
    /\ hist.log.steps[2].cmd = FN_DIFF0
    /\ decoder.pending_cmd = None

\* the bits of the first n codes of parameter k: (v >> k) zeros, the stop
\* bit, k mantissa bits
RECURSIVE CodeBits(_, _, _)
CodeBits(codes, k, n) ==
    IF n = 0 THEN 0 ELSE CodeBits(codes, k, n - 1) + (codes[n] \div 2^k) + 1 + k

\* every read so far returned a value
AllRead(u) == \A i \in DOMAIN u.got : u.got[i].t = "Ok"

(* C27: read_unsigned_rice(k) inverts the Rice code.  Reading codes made of  *)
(* (v >> k) zero bits, a 1 stop bit and the k low bits of v MSB-first,       *)
(* packed back to back, returns the values v in order, each read taking      *)
(* exactly (v >> k) + 1 + k bits, for k = 0, 2 and 25 (byte 88 with k = 0    *)
(* gives 0 then 3; byte 5C with k = 2 gives 5 then 2).                       *)
C27_RiceRoundTrip ==
    (unit.kind = "rice" /\ ~unit.signed) =>
        /\ AllRead(unit)
        /\ \A i \in DOMAIN unit.got : unit.got[i].v = unit.codes[i]
        /\ BitsAhead(unit.rd)
              = 8 * Len(unit.src) - CodeBits(unit.codes, unit.k, Len(unit.got))
        /\ (unit.src = <<136>> /\ unit.k = 0 /\ Len(unit.got) = 2) =>
              (unit.got[1].v = 0 /\ unit.got[2].v = 3)
        /\ (unit.src = <<92>> /\ unit.k = 2 /\ Len(unit.got) = 2) =>
              (unit.got[1].v = 5 /\ unit.got[2].v = 2)

\* byte 5C read with k = 2 gave 5, then 2, and one padding bit is left
C27_Witness ==
    /\ unit.kind = "rice"
    /\ ~unit.signed
    /\ unit.k = 2
    /\ unit.src = <<92>>
    /\ Len(unit.got) = 2
    /\ unit.got[1].v = 5
    /\ unit.got[2].v = 2
    /\ BitsAhead(unit.rd) = 1

\* the signed value of the unsigned code u, and the code of the signed x
Unfolded(u) == IF u % 2 = 0 THEN u \div 2 ELSE -((u - 1) \div 2) - 1
Folded(x) == IF x >= 0 THEN 2 * x ELSE -2 * x - 1

(* C28: read_signed_rice(k) reads u = read_unsigned_rice(k + 1) and returns  *)
(* u / 2 for even u and -((u - 1) / 2) - 1 for odd u, so that 0, 1, 2, 3, 4  *)
(* give 0, -1, 1, -2, 2.  The mapping is one to one and onto: two codes that *)
(* differ give values that differ, and each value folds back to its code.    *)
C28_SignedRice ==
    (unit.kind = "rice" /\ unit.signed) =>
        /\ AllRead(unit)
        /\ \A i \in DOMAIN unit.got :
              /\ unit.got[i].v = Unfolded(unit.codes[i])
              /\ Folded(unit.got[i].v) = unit.codes[i]
              /\ unit.codes[i] \in 0..4 =>
                    unit.got[i].v = <<0, -1, 1, -2, 2>>[unit.codes[i] + 1]
        /\ \A i, j \in DOMAIN unit.got :
              unit.codes[i] # unit.codes[j] => unit.got[i].v # unit.got[j].v
        /\ BitsAhead(unit.rd)
              = 8 * Len(unit.src) - CodeBits(unit.codes, unit.k + 1, Len(unit.got))

\* the codes 3 and 4 read with k = 0 gave -2 and 2
C28_Witness ==
    /\ unit.kind = "rice"
    /\ unit.signed
    /\ unit.k = 0
    /\ unit.codes = <<3, 4>>
    /\ Len(unit.got) = 2
    /\ unit.got[1].v = -2
    /\ unit.got[2].v = 2

\* the bits of a byte sequence, each byte MSB-first
RECURSIVE StreamBits(_)
StreamBits(bytes) ==
    IF bytes = << >> THEN << >> ELSE LowBits(Head(bytes), 8) \o StreamBits(Tail(bytes))

\* the bits the first n reads returned
RECURSIVE ReturnedBits(_, _)
ReturnedBits(reads, n) ==
    IF n = 0 THEN << >>
    ELSE ReturnedBits(reads, n - 1)
            \o (IF reads[n].t = "Ok" THEN LowBits(reads[n].v, reads[n].n) ELSE << >>)

\* the valid region of the accumulator: its bits_left high-order bits
ValidBits(rd) == [i \in 1..rd.bits_left |-> rd.buf[i]]

(* C29: over every sequence of reads of at most 25 bits each, the reader     *)
(* keeps 0 <= bits_left <= 32, the bits of buf below the valid region are    *)
(* zero, and the bits returned so far, then the valid region, then the bytes *)
(* not yet taken from the source are the bits of the byte stream MSB-first:  *)
(* a refill puts the whole byte just below the valid region, and no bit is   *)
(* skipped or repeated.  A5 3C read as 4, 4, 8 bits gives A, 5, 3C.  A read  *)
(* returns a value or the I/O error of a source that has ended.              *)
C29_BitReaderInvariant ==
    unit.kind = "bits" =>
        /\ unit.rd.bits_left \in 0..32
        /\ \A i \in 1..32 : i > unit.rd.bits_left => unit.rd.buf[i] = 0
        /\ ReturnedBits(unit.reads, Len(unit.reads)) \o ValidBits(unit.rd)
              \o StreamBits(unit.rd.reader) = StreamBits(unit.src)
        /\ \A i \in DOMAIN unit.reads :
              /\ unit.reads[i].t \in {"Ok", "Err"}
              /\ unit.reads[i].t = "Ok" => unit.reads[i].v \in 0..(2^unit.reads[i].n - 1)
        /\ (unit.src = <<165, 60>> /\ Len(unit.reads) = 3
               /\ unit.reads[1].n = 4 /\ unit.reads[2].n = 4 /\ unit.reads[3].n = 8) =>
              (unit.reads[1].v = 10 /\ unit.reads[2].v = 5 /\ unit.reads[3].v = 60)

\* a read of 25 bits refilled a reader holding 24 bits to a full accumulator
\* of 32, and the 7 bits it left were read next
C29_Witness ==
    /\ unit.kind = "bits"
    /\ unit.src = <<1, 35, 69, 103, 137>>
    /\ Len(unit.reads) = 2
    /\ unit.reads[1] = [n |-> 25, t |-> "Ok", v |-> 149130]
    /\ unit.reads[2] = [n |-> 7, t |-> "Ok", v |-> 103]
    /\ unit.rd.bits_left = 0
    /\ unit.rd.reader = <<137>>

\* the unit has just run buf.resize(unit.arg) on the buffer unit.prev
Resized == unit.kind = "buffer" /\ unit.op = "resize"

\* the three history samples of the buffer are those of the buffer before
HistoryKept == \A i \in 1..NWRAP : get(unit.buf, -i) = get(unit.prev, -i)

(* C30, as stated: after resize(new_B) the history samples at -3, -2, -1 are *)
(* unchanged and every index in [0, new_B) holds zero, whether the buffer    *)
(* grew or shrank.                                                           *)
C30_ResizeZeroes ==
    Resized =>
        /\ HistoryKept
        /\ \A i \in 0..(unit.arg - 1) : get(unit.buf, i) = 0

(* C30, amended: after resize(new_B) the buffer has block size new_B and     *)
(* NWRAP + new_B slots, the history samples at -3, -2, -1 are unchanged,     *)
(* every index below both the old and the new block size keeps the sample it *)
(* held, and only the indices from the old block size up, which a growing    *)
(* resize adds, hold zero.  A resize to the current block size changes       *)
(* nothing.                                                                  *)
C30_ResizeKeepsSamples ==
    Resized =>
        /\ unit.buf.blocksize = unit.arg
        /\ Len(unit.buf.data) = NWRAP + unit.arg
        /\ HistoryKept
        /\ \A i \in 0..(unit.arg - 1) :
              get(unit.buf, i) = IF i < unit.prev.blocksize THEN get(unit.prev, i) ELSE 0
        /\ unit.arg = unit.prev.blocksize => unit.buf = unit.prev

\* a buffer of two samples 5, 6, wrapped, then grown to three: the history
\* 0, 5, 6 and the samples 5, 6 are kept and the new slot is zero
C30_Witness ==
    /\ Resized
    /\ unit.arg = 3
    /\ unit.prev.blocksize = 2
    /\ unit.buf.data = <<0, 5, 6, 5, 6, 0>>

\* v << b as the 32-bit result of a shift by b bits: nothing is left of v
\* once b reaches the width
Shifted(v, b) == IF b = 0 THEN v ELSE IF b >= 32 THEN 0 ELSE ShlI32(v, b)

\* the low b bits of the 32-bit sample s are zero
LowBitsZero(s, b) ==
    IF b >= 32 THEN s = 0
    ELSE IF b = 31 THEN s \in {0, I32Min}
    ELSE s % 2^b = 0

\* the block of step st is the samples e decoded for it, shifted
ShiftedBlock(st, ch, e) ==
    /\ e.ok
    /\ block_samples(st.post.r.buffers[ch + 1])
          = [i \in 1..st.pre.blocksize |-> Shifted(e.s[i], st.pre.bitshift)]
ShiftedDiff(st, ch, energy) ==
    /\ energy.t = "Ok"
    /\ ShiftedBlock(st, ch,
                    DiffSamples(energy.r, energy.v, st.cmd, coffset(st.pre.means[ch + 1]),
                                History(st.pre.buffers[ch + 1]), st.pre.blocksize, << >>))
ShiftedCoeffs(st, ch, energy, cs) ==
    /\ cs.t = "Ok"
    /\ ShiftedBlock(st, ch,
                    QlpcSamples(cs.r, energy.v, cs.v,
                                Zeros(Len(cs.v)) \o History(st.pre.buffers[ch + 1]),
                                st.pre.blocksize, << >>))
ShiftedQlpc(st, ch) ==
    ShiftedCoeffs(st, ch, QlpcEnergyField(st),
                  read_coeffs(QlpcOrderField(st).r, QlpcOrderField(st).v, << >>))

\* the completed block command of step st left its decoded samples shifted by
\* the bitshift in force
BlockShifted(st, ch) ==
    /\ \A i \in 1..st.pre.blocksize :
          LowBitsZero(block_samples(st.post.r.buffers[ch + 1])[i], st.pre.bitshift)
    /\ CASE st.cmd = FN_ZERO ->
              block_samples(st.post.r.buffers[ch + 1]) = Zeros(st.pre.blocksize)
         [] st.cmd = FN_QLPC -> ShiftedQlpc(st, ch)
         [] OTHER -> ShiftedDiff(st, ch, read_unsigned_rice(st.pre.reader, ENERGYSIZE))

\* the samples a delivered unit holds for the channel of step st
EmittedShifted(st, ch) ==
    \A i \in 0..(decoder.blocksize - 1) :
        LowBitsZero(decoder.output_buf[i * decoder.channels + ch + 1], st.pre.bitshift)

\* the bitshift the BITSHIFT command of step st read
BitShiftField(st) == read_unsigned_rice(st.pre.reader, BITSHIFTSIZE)

(* C31: bitshift is 0 when the decoder is built and changes only through a   *)
(* BITSHIFT command, which sets it to read_unsigned_rice(2) and produces no  *)
(* block.  Every sample of a block completed while bitshift = b > 0 (DIFF*,  *)
(* QLPC or ZERO, on any channel) is stored, and emitted by the pass, as its  *)
(* decoded value shifted left by b bits, so that its low b bits are zero;    *)
(* with b = 0 the decoded value is stored and emitted as it is.              *)
C31_BitshiftApplied ==
    pc = "open" =>
        /\ calls = 0 => decoder.bitshift = 0
        /\ calls > 0 =>
              decoder.bitshift
                  = IF hist.log.steps = << >> THEN hist.start.bitshift
                    ELSE hist.log.steps[Len(hist.log.steps)].post.r.bitshift
        /\ \A i \in DOMAIN hist.log.steps :
              hist.log.steps[i].pre.bitshift
                  = IF i = 1 THEN hist.start.bitshift
                    ELSE hist.log.steps[i - 1].post.r.bitshift
        /\ \A st \in Steps(hist.log) :
              /\ (st.cmd # FN_BITSHIFT /\ st.post.t \in {"Ok", "Err"}) =>
                    st.post.r.bitshift = st.pre.bitshift
              /\ (st.cmd = FN_BITSHIFT /\ st.post.t = "Ok") =>
                    /\ BitShiftField(st).t = "Ok"
                    /\ st.post.r.bitshift = BitShiftField(st).v
                    /\ st.post.v = 0
                    /\ st.post.r.buffers = st.pre.buffers
        /\ \A st \in BlockSteps(hist.log) :
              /\ BlockShifted(st, st.pre.current_channel)
              /\ hist.pass = "ok" => EmittedShifted(st, st.pre.current_channel)

\* the channels of the decoder d other than ch
OtherChannels(d, ch) == (0..(d.channels - 1)) \ {ch}

\* the step st left everything but the state of channel ch as it was
OnlyChannel(st, ch) ==
    /\ st.post.r.blocksize = st.pre.blocksize
    /\ st.post.r.bitshift = st.pre.bitshift
    /\ Len(st.post.r.buffers) = Len(st.pre.buffers)
    /\ Len(st.post.r.means) = Len(st.pre.means)
    /\ \A c \in OtherChannels(st.pre, ch) :
          /\ st.post.r.buffers[c + 1] = st.pre.buffers[c + 1]
          /\ st.post.r.means[c + 1] = st.pre.means[c + 1]

(* C32: a block-producing command (DIFF0..3, QLPC, ZERO), completed or       *)
(* failed, changes the block samples, the history and the mean window of the *)
(* channel indexed by current_channel only: the buffers, histories and mean  *)
(* windows of all other channels, and blocksize and bitshift, are after the  *)
(* command what they were before it.                                         *)
C32_BlockTouchesOneChannel ==
    \A st \in Steps(hist.log) :
        (st.cmd \in BlockCommands /\ st.post.t \in {"Ok", "Err"}) =>
            OnlyChannel(st, st.pre.current_channel)

\* a completed block command on channel 1 of two changed that channel's
\* buffer and mean window while channel 0 held samples and means other than 0
C32_Witness ==
    \E st \in BlockSteps(hist.log) :
        /\ st.pre.channels = 2
        /\ st.pre.current_channel = 1
        /\ st.post.r.buffers[2] # st.pre.buffers[2]
        /\ st.post.r.means[2] # st.pre.means[2]
        /\ \E k \in DOMAIN st.pre.buffers[1].data : st.pre.buffers[1].data[k] # 0
        /\ \E k \in DOMAIN st.pre.means[1].values : st.pre.means[1].values[k] # 0
        /\ st.post.r.buffers[1] = st.pre.buffers[1]
        /\ st.post.r.means[1] = st.pre.means[1]

\* the steps of the pass before step i that completed a block
BlocksBefore(log, i) ==
    {j \in 1..(i - 1) : log.steps[j].post.t = "Ok" /\ log.steps[j].post.v = 1}

(* C33: every production pass starts with current_channel = 0 and, when it   *)
(* succeeds, ends with current_channel = 0: the blocks interleaved in the    *)
(* unit it delivers were decoded for the channels 0, 1, .., channels - 1 in  *)
(* that order within the pass.  This holds for the passes the iterator runs  *)
(* after a pass that ended with an error in the middle as well.              *)
C33_PassFromChannelZero ==
    (pc = "open" /\ hist.pass # "no") =>
        /\ hist.start.current_channel = 0
        /\ hist.pass = "ok" =>
              /\ decoder.current_channel = 0
              /\ \A i \in DOMAIN hist.log.steps :
                    hist.log.steps[i] \in BlockSteps(hist.log) =>
                        hist.log.steps[i].pre.current_channel
                            = Cardinality(BlocksBefore(hist.log, i))

\* the delivered unit holds, for channel ch, the block the step st wrote
EmitsBlockOf(st, ch) ==
    /\ st.pre.blocksize = decoder.blocksize
    /\ \A i \in 0..(decoder.blocksize - 1) :
          decoder.output_buf[i * decoder.channels + ch + 1]
              = block_samples(st.post.r.buffers[ch + 1])[i + 1]

(* C34: in every delivered interleaved unit each of the blocksize samples    *)
(* emitted for a channel is a value that channel's block-producing command   *)
(* of the same pass wrote: the unit holds exactly blocksize samples per      *)
(* channel, the whole block of each channel's command and nothing else (no   *)
(* stale sample, no sample cut off, no zero filled in), also when a          *)
(* BLOCKSIZE command stands between the blocks of two channels of the pass.  *)
C34_UnitHoldsWrittenBlocks ==
    (pc = "open" /\ hist.pass = "ok") =>
        /\ Len(decoder.output_buf) = decoder.blocksize * decoder.channels
        /\ \A ch \in 0..(decoder.channels - 1) :
              \E st \in BlockSteps(hist.log) : st.pre.current_channel = ch
        /\ \A st \in BlockSteps(hist.log) : EmitsBlockOf(st, st.pre.current_channel)

====
